---- MODULE Spec2Model ----
(***************************************************************************)
(* tins: a CLI that creates, lists, connects to and terminates short-lived *)
(* OpenStack instances, pairing each with a local SSH key pair under       *)
(* ~/.ssh and a remote keypair of the same name.                           *)
(*                                                                         *)
(* The provider (servers, keypairs) and the key directory are the shared   *)
(* state; every invocation of the tool is a process that runs one command  *)
(* step by step.  Strings are sequences of one-character strings, so that  *)
(* strings.HasPrefix, strings.TrimPrefix and fmt.Sprintf("%s%s") are the   *)
(* real operations on them.                                                *)
(***************************************************************************)
EXTENDS Integers, Sequences, FiniteSets, TLC

VARIABLES
    servers,    \* provider: the compute servers, in the provider's listing order
    keypairs,   \* provider: the registered keypairs, a set of [name, publicKey]
    files,      \* local key directory ~/.ssh: a function path -> file content
    nextKey,    \* number of RSA keys generated so far (names the next fresh key)
    pc,         \* per invocation: the position in its command
    loc,        \* per invocation: the command's local variables
    calls,      \* per invocation: the provider / key-manager calls made, in order
    ret         \* per invocation: the value RunE returned ("none" while running)

vars == <<servers, keypairs, files, nextKey, pc, loc, calls, ret>>

----------------------------------------------------------------------------
(* Bounds of the model *)

\* The longest server list the provider starts with.
MaxServers == 2

\* The most key-manager calls one run of the key-manager harness makes.
MaxKeyOps == 3

----------------------------------------------------------------------------
(* Strings *)

InstanceNamePrefix == <<"t", "i", "n", "s", "-">>

TempInstanceTag == "tins"

\* strings.HasPrefix
HasPrefix(s, prefix) ==
    /\ Len(s) >= Len(prefix)
    /\ SubSeq(s, 1, Len(prefix)) = prefix

\* strings.TrimPrefix
TrimPrefix(s, prefix) ==
    IF HasPrefix(s, prefix) THEN SubSeq(s, Len(prefix) + 1, Len(s)) ELSE s

\* A full name that is the short name itself.
FullName_NoPrefix(name) == name

\* fmt.Sprintf("%s%s", InstanceNamePrefix, name)
FullName(name) == InstanceNamePrefix \o name

----------------------------------------------------------------------------
(* The values the model draws from *)

Procs == {"p1", "p2"}

EmptyStr == <<>>

\* Provider IDs are opaque strings; <<"a">> is an ID that is also a short name.
ServerIDs == {<<"x">>, <<"y">>, <<"a">>}

\* Server names: a managed name, a bare prefix, and an unprefixed name.
ServerNames == {FullName(<<"a">>), InstanceNamePrefix, <<"b">>}

\* What a user may type as the instance identifier.
Identifiers ==
    ServerIDs \cup ServerNames \cup {EmptyStr, FullName(<<"b">>)}

\* servers.Server.Metadata is a Go map[string]string, possibly nil.
MetaNil   == [isNil |-> TRUE,  map |-> <<>>]
MetaEmpty == [isNil |-> FALSE, map |-> <<>>]
MetaTrue  == [isNil |-> FALSE, map |-> (TempInstanceTag :> "true")]
MetaFalse == [isNil |-> FALSE, map |-> (TempInstanceTag :> "false")]

AllMetas == {MetaNil, MetaEmpty, MetaTrue, MetaFalse}

\* servers.Server.Addresses is a Go map from network name to a list of
\* address entries, each a map that may hold "OS-EXT-IPS:type" and "addr".
AddrEntry(type, addr) == ("OS-EXT-IPS:type" :> type) @@ ("addr" :> addr)

\* No address yet, or one network carrying one fixed address.
NoAddresses == <<>>
OneFixed == ("private" :> <<AddrEntry("fixed", "10.0.0.1")>>)

Server(id, name, meta, status, addrs) ==
    [ID |-> id, Name |-> name, Metadata |-> meta, Status |-> status,
     Addresses |-> addrs]

NoServer == Server(EmptyStr, EmptyStr, MetaNil, "", NoAddresses)

ServersOver(ids, names, metas) ==
    {Server(id, name, meta, "ACTIVE", OneFixed) :
        id \in ids, name \in names, meta \in metas}

SeqsUpTo(S, n) == UNION {[1..k -> S] : k \in 0..n}

DistinctIDs(svrs) ==
    \A i, j \in 1..Len(svrs) : svrs[i].ID = svrs[j].ID => i = j

\* Every listing of at most n servers of U with pairwise distinct IDs.
ProviderListings(U, n) == {s \in SeqsUpTo(U, n) : DistinctIDs(s)}

----------------------------------------------------------------------------
(* Provider client (openstack.go) *)

\* One entry of an invocation's call log.  pre: for a key-manager call, which
\* of the two key files existed when it was made.
Call(op, arg, ok) == [op |-> op, arg |-> arg, ok |-> ok, pre |-> {}]
KeyCall(op, arg, ok, pre) == [op |-> op, arg |-> arg, ok |-> ok, pre |-> pre]

\* The metadata test of ListInstances and connect: the map is non-nil, holds
\* the key "tins" and maps it to "true".
HasTinsTag(server) ==
    /\ ~server.Metadata.isNil
    /\ TempInstanceTag \in DOMAIN server.Metadata.map
    /\ server.Metadata.map[TempInstanceTag] = "true"

\* The name test of ListInstances and connect:
\* len(Name) >= len(prefix) && Name[:len(prefix)] == prefix
HasTinsPrefix(server) ==
    /\ Len(server.Name) >= Len(InstanceNamePrefix)
    /\ SubSeq(server.Name, 1, Len(InstanceNamePrefix)) = InstanceNamePrefix

IsManaged_TagOnly(server) == HasTinsTag(server)

\* The filter of ListInstances: metadata tag, or else the name prefix.
IsManaged(server) ==
    IF HasTinsTag(server) THEN TRUE ELSE HasTinsPrefix(server)

\* ListInstances: the provider's servers, filtered, in the provider's order.
ListInstances(svrs) == SelectSeq(svrs, IsManaged)

IndexOfID(svrs, id) ==
    IF \E i \in 1..Len(svrs) : svrs[i].ID = id
    THEN CHOOSE i \in 1..Len(svrs) : svrs[i].ID = id
    ELSE 0

\* GetInstance: servers.Get by ID; fails when the provider has no such server
\* or the call itself fails (ok = FALSE).
GetInstance(svrs, id, ok) ==
    IF ok /\ IndexOfID(svrs, id) # 0
    THEN [err |-> FALSE, server |-> svrs[IndexOfID(svrs, id)]]
    ELSE [err |-> TRUE, server |-> NoServer]

RemoveAt(s, i) == SubSeq(s, 1, i - 1) \o SubSeq(s, i + 1, Len(s))

\* DeleteInstance: servers.Delete by ID.
DeleteInstance(svrs, id, ok) ==
    IF ok /\ IndexOfID(svrs, id) # 0
    THEN [err |-> FALSE, servers |-> RemoveAt(svrs, IndexOfID(svrs, id))]
    ELSE [err |-> TRUE, servers |-> svrs]

\* DeleteKeypair: keypairs.Delete by name; fails when no such keypair exists.
DeleteKeypair(kps, name, ok) ==
    IF ok /\ \E k \in kps : k.name = name
    THEN [err |-> FALSE, keypairs |-> {k \in kps : k.name # name}]
    ELSE [err |-> TRUE, keypairs |-> kps]

\* A CreateKeypair that lets the provider generate the key instead of
\* importing the given one.
CreateKeypair_NotImported(kps, name, publicKey, ok) ==
    IF ok /\ ~\E k \in kps : k.name = name
    THEN [err |-> FALSE,
          keypairs |-> kps \cup {[name |-> name,
                                  publicKey |-> [kind |-> "ssh-rsa", key |-> 0]]}]
    ELSE [err |-> TRUE, keypairs |-> kps]

\* CreateKeypair: keypairs.Create importing the public key; the provider
\* refuses a name already taken.
CreateKeypair(kps, name, publicKey, ok) ==
    IF ok /\ ~\E k \in kps : k.name = name
    THEN [err |-> FALSE,
          keypairs |-> kps \cup {[name |-> name, publicKey |-> publicKey]}]
    ELSE [err |-> TRUE, keypairs |-> kps]

----------------------------------------------------------------------------
(* Key manager (ssh.go) *)

SshDir == <<"~/.ssh/">>

\* GetSSHKeyPath: filepath.Join(sshDir, prefix + name)
GetSSHKeyPath(instanceName) == SshDir \o FullName(instanceName)

PubPath(privateKeyPath) == privateKeyPath \o <<".pub">>

Exists(fs, path) == path \in DOMAIN fs

\* Which of the two key files of a short name exist.
KeyFilesOf(fs, instanceName) ==
    {k \in {"priv", "pub"} :
        Exists(fs, IF k = "priv" THEN GetSSHKeyPath(instanceName)
                   ELSE PubPath(GetSSHKeyPath(instanceName)))}

WriteFile(fs, path, data) == (path :> data) @@ fs

RemoveFile(fs, path) == [q \in (DOMAIN fs) \ {path} |-> fs[q]]

\* File contents.  Key material is named by the number of the generated key.
PrivateKeyPEM(key) == [kind |-> "RSA PRIVATE KEY", key |-> key]
PublicKeyString(key) == [kind |-> "ssh-rsa", key |-> key]
Truncated == [kind |-> "truncated", key |-> 0]
\* The empty public-key string "".
NoPublicKey == [kind |-> "", key |-> 0]

GenerateFaults ==
    {"none", "mkdir", "rsa", "openPrivate", "writePrivate", "publicKey",
     "openPublic", "writePublic"}

\* A GenerateSSHKey that returns the pair without writing the private key.
GenerateSSHKey_NoPrivateFile(fs, instanceName, key, fault) ==
    LET publicKeyPath == PubPath(SshDir \o FullName(instanceName))
    IN  IF fault = "none"
        THEN [err |-> "nil",
              files |-> WriteFile(fs, publicKeyPath, PublicKeyString(key)),
              PublicKey |-> PublicKeyString(key)]
        ELSE [err |-> "failed to generate private key", files |-> fs,
              PublicKey |-> NoPublicKey]

\* GenerateSSHKey: MkdirAll, rsa.GenerateKey, write the private key, derive
\* and write the public key; the first failing step returns its error and
\* leaves what the earlier steps wrote.  A WriteFile that fails after the
\* open leaves a truncated file.
GenerateSSHKey(fs, instanceName, key, fault) ==
    LET privateKeyPath == SshDir \o FullName(instanceName)
        publicKeyPath == PubPath(privateKeyPath)
        fsPriv == WriteFile(fs, privateKeyPath, PrivateKeyPEM(key))
        fsBoth == WriteFile(fsPriv, publicKeyPath, PublicKeyString(key))
        fail(f, e) == [err |-> e, files |-> f, PublicKey |-> NoPublicKey]
    IN  CASE fault = "mkdir" -> fail(fs, "failed to create .ssh directory")
          [] fault = "rsa" -> fail(fs, "failed to generate private key")
          [] fault = "openPrivate" -> fail(fs, "failed to write private key")
          [] fault = "writePrivate" ->
                fail(WriteFile(fs, privateKeyPath, Truncated),
                     "failed to write private key")
          [] fault = "publicKey" -> fail(fsPriv, "failed to generate public key")
          [] fault = "openPublic" -> fail(fsPriv, "failed to write public key")
          [] fault = "writePublic" ->
                fail(WriteFile(fsPriv, publicKeyPath, Truncated),
                     "failed to write public key")
          [] OTHER ->
                [err |-> "nil", files |-> fsBoth,
                 PublicKey |-> PublicKeyString(key)]

\* os.Remove: "notexist" for an absent file; for a present file either the
\* removal, or another error (permission denied) that leaves it in place.
OsRemove(fs, path, denied) ==
    IF ~Exists(fs, path) THEN [err |-> "notexist", files |-> fs]
    ELSE IF denied THEN [err |-> "denied", files |-> fs]
    ELSE [err |-> "nil", files |-> RemoveFile(fs, path)]

\* os.IsNotExist(err)
IsNotExist(err) == err = "notexist"

DeleteSSHKey_NotExistFails(fs, instanceName, deniedPriv, deniedPub) ==
    LET privateKeyPath == SshDir \o FullName(instanceName)
        publicKeyPath == PubPath(privateKeyPath)
        r1 == OsRemove(fs, privateKeyPath, deniedPriv)
        r2 == OsRemove(r1.files, publicKeyPath, deniedPub)
    IN  IF r1.err # "nil"
        THEN [err |-> "failed to delete private key", files |-> r1.files]
        ELSE IF r2.err # "nil"
        THEN [err |-> "failed to delete public key", files |-> r2.files]
        ELSE [err |-> "nil", files |-> r2.files]

\* DeleteSSHKey: remove the private key, then the public key; a removal
\* error other than not-exist returns at once.  removes is the set of paths
\* the call has passed to os.Remove.
DeleteSSHKey(fs, instanceName, deniedPriv, deniedPub) ==
    LET privateKeyPath == SshDir \o FullName(instanceName)
        publicKeyPath == PubPath(privateKeyPath)
        r1 == OsRemove(fs, privateKeyPath, deniedPriv)
        r2 == OsRemove(r1.files, publicKeyPath, deniedPub)
    IN  IF r1.err # "nil" /\ ~IsNotExist(r1.err)
        THEN [err |-> "failed to delete private key", files |-> r1.files,
              removes |-> {privateKeyPath}]
        ELSE IF r2.err # "nil" /\ ~IsNotExist(r2.err)
        THEN [err |-> "failed to delete public key", files |-> r2.files,
              removes |-> {privateKeyPath, publicKeyPath}]
        ELSE [err |-> "nil", files |-> r2.files,
              removes |-> {privateKeyPath, publicKeyPath}]

----------------------------------------------------------------------------
(* Invocations *)

\* A command's local variables; Go's zero values before they are assigned.
InitLoc ==
    [cmd |-> "", args |-> <<>>, all |-> FALSE,
     serverID |-> EmptyStr, instanceName |-> EmptyStr,
     fullInstanceName |-> EmptyStr,
     list |-> <<>>, idx |-> 0, selectedServer |-> NoServer,
     publicKey |-> NoPublicKey, now |-> 0, waitErr |-> "", ipAddress |-> "",
     sshArgs |-> <<>>,
     configFile |-> [found |-> FALSE], environ |-> <<>>, config |-> <<>>,
     disk |-> <<>>]

\* LoadConfig returns a configuration, returns an error, or leaves the
\* process through getEnvRequired's os.Exit(1).
LoadConfigOutcomes == {"ok", "error", "exit"}

Log(p, entries) == [calls EXCEPT ![p] = calls[p] \o entries]

Return(p, value) ==
    /\ pc' = [pc EXCEPT ![p] = "done"]
    /\ ret' = [ret EXCEPT ![p] = value]

Goto(p, label) ==
    /\ pc' = [pc EXCEPT ![p] = label]
    /\ UNCHANGED ret

\* The head of every command that talks to the provider: LoadConfig, then
\* NewOpenStackClient, which authenticates.
ClientSetup(p, cfg, authOK, label) ==
    IF cfg = "error" THEN
        /\ Return(p, "config error")
        /\ UNCHANGED calls
    ELSE IF cfg = "exit" THEN
        /\ Return(p, "exit(1)")
        /\ UNCHANGED calls
    ELSE IF ~authOK THEN
        /\ Return(p, "failed to create OpenStack client")
        /\ calls' = Log(p, <<Call("Authenticate", EmptyStr, FALSE)>>)
    ELSE
        /\ Goto(p, label)
        /\ calls' = Log(p, <<Call("Authenticate", EmptyStr, TRUE)>>)

----------------------------------------------------------------------------
(* Configuration (config.go) *)

\* The fields of ConfigFile, which are the fields of OpenStackConfig other
\* than Password.
ConfigFields ==
    {"AuthURL", "Username", "DomainName", "ProjectID", "ProjectName",
     "RegionName", "AvailabilityZone", "ImageName", "FlavorName",
     "NetworkName", "NetworkAttachmentMode"}

\* The yaml tag of a field of ConfigFile.
YamlKey(field) ==
    CASE field = "AuthURL" -> "auth_url"
      [] field = "Username" -> "username"
      [] field = "DomainName" -> "domain_name"
      [] field = "ProjectID" -> "project_id"
      [] field = "ProjectName" -> "project_name"
      [] field = "RegionName" -> "region_name"
      [] field = "AvailabilityZone" -> "availability_zone"
      [] field = "ImageName" -> "image_name"
      [] field = "FlavorName" -> "flavor_name"
      [] field = "NetworkName" -> "network_name"
      [] field = "NetworkAttachmentMode" -> "network_attachment_mode"

\* The environment variable that overrides a field.
EnvVar(field) ==
    CASE field = "AuthURL" -> "OS_AUTH_URL"
      [] field = "Username" -> "OS_USERNAME"
      [] field = "DomainName" -> "OS_DOMAIN_NAME"
      [] field = "ProjectID" -> "OS_PROJECT_ID"
      [] field = "ProjectName" -> "OS_PROJECT_NAME"
      [] field = "RegionName" -> "OS_REGION_NAME"
      [] field = "AvailabilityZone" -> "OS_AVAILABILITY_ZONE"
      [] field = "ImageName" -> "OS_IMAGE_NAME"
      [] field = "FlavorName" -> "OS_FLAVOR_NAME"
      [] field = "NetworkName" -> "OS_NETWORK_NAME"
      [] field = "NetworkAttachmentMode" -> "OS_NETWORK_ATTACHMENT_MODE"

\* The fields LoadConfig validates, in the order it validates them.
RequiredFields ==
    <<"AuthURL", "Username", "ProjectID", "ProjectName", "RegionName",
      "AvailabilityZone", "ImageName", "NetworkName">>

\* The fields LoadConfig gives a default.
DefaultOf(field) ==
    CASE field = "DomainName" -> "default"
      [] field = "FlavorName" -> "m1.small"
      [] field = "NetworkAttachmentMode" -> "existing_network"
      [] OTHER -> ""

\* os.Getenv: the value of a variable, "" when it is not set.
Getenv(environ, key) ==
    IF key \in DOMAIN environ THEN environ[key] ELSE ""

\* yaml.Unmarshal into a ConfigFile: each field takes the value of the key
\* of its tag, "" when the document has no such key; keys that are no tag of
\* ConfigFile are dropped.
Unmarshal(yaml) ==
    [f \in ConfigFields |->
        IF YamlKey(f) \in DOMAIN yaml THEN yaml[YamlKey(f)] ELSE ""]

\* Index of the first required field that is empty, 0 if none.
FirstMissing(config) ==
    LET missing == {i \in DOMAIN RequiredFields : config[RequiredFields[i]] = ""}
    IN  IF missing = {} THEN 0
        ELSE CHOOSE i \in missing : \A j \in missing : i <= j

\* LoadConfig with the file's values taking precedence over the environment.
LoadConfig_FileWins(configFile, environ) ==
    IF configFile.found /\ ~configFile.parses
    THEN [config |-> <<>>, err |-> "failed to load config file"]
    ELSE
    LET fromFile == IF configFile.found THEN Unmarshal(configFile.yaml)
                    ELSE [f \in ConfigFields |-> ""]
        merged == [f \in ConfigFields |->
                      IF fromFile[f] # ""
                      THEN fromFile[f] ELSE Getenv(environ, EnvVar(f))]
        password == Getenv(environ, "OS_PASSWORD")
        config == [f \in ConfigFields \cup {"Password"} |->
                      IF f = "Password" THEN password
                      ELSE IF merged[f] = "" THEN DefaultOf(f) ELSE merged[f]]
        missing == FirstMissing(config)
    IN  IF password = ""
        THEN [config |-> <<>>, err |-> "exit(1)"]
        ELSE IF missing # 0
        THEN [config |-> <<>>,
              err |-> EnvVar(RequiredFields[missing]) \o " is required"]
        ELSE [config |-> config, err |-> "nil"]

\* LoadConfig without the validation of NetworkName.
LoadConfig_NetworkNameUnchecked(configFile, environ) ==
    IF configFile.found /\ ~configFile.parses
    THEN [config |-> <<>>, err |-> "failed to load config file"]
    ELSE
    LET fromFile == IF configFile.found THEN Unmarshal(configFile.yaml)
                    ELSE [f \in ConfigFields |-> ""]
        merged == [f \in ConfigFields |->
                      IF Getenv(environ, EnvVar(f)) # ""
                      THEN Getenv(environ, EnvVar(f)) ELSE fromFile[f]]
        password == Getenv(environ, "OS_PASSWORD")
        config == [f \in ConfigFields \cup {"Password"} |->
                      IF f = "Password" THEN password
                      ELSE IF merged[f] = "" THEN DefaultOf(f) ELSE merged[f]]
        missing == FirstMissing(config)
    IN  IF password = ""
        THEN [config |-> <<>>, err |-> "exit(1)"]
        ELSE IF missing # 0 /\ RequiredFields[missing] # "NetworkName"
        THEN [config |-> <<>>,
              err |-> EnvVar(RequiredFields[missing]) \o " is required"]
        ELSE [config |-> config, err |-> "nil"]

\* LoadConfig: the file's values when a file is found, overridden by the
\* environment variables that are set; Password from OS_PASSWORD, leaving the
\* process when it is empty; the three defaults; then the validation.
LoadConfig(configFile, environ) ==
    IF configFile.found /\ ~configFile.parses
    THEN [config |-> <<>>, err |-> "failed to load config file"]
    ELSE
    LET fromFile == IF configFile.found THEN Unmarshal(configFile.yaml)
                    ELSE [f \in ConfigFields |-> ""]
        merged == [f \in ConfigFields |->
                      IF Getenv(environ, EnvVar(f)) # ""
                      THEN Getenv(environ, EnvVar(f)) ELSE fromFile[f]]
        password == Getenv(environ, "OS_PASSWORD")
        config == [f \in ConfigFields \cup {"Password"} |->
                      IF f = "Password" THEN password
                      ELSE IF merged[f] = "" THEN DefaultOf(f) ELSE merged[f]]
        missing == FirstMissing(config)
    IN  IF password = ""
        THEN [config |-> <<>>, err |-> "exit(1)"]
        ELSE IF missing # 0
        THEN [config |-> <<>>,
              err |-> EnvVar(RequiredFields[missing]) \o " is required"]
        ELSE [config |-> config, err |-> "nil"]

\* One call of LoadConfig on the invocation's config file and environment.
LoadConfigRun(p) ==
    /\ pc[p] = "config"
    /\ LET r == LoadConfig(loc[p].configFile, loc[p].environ)
       IN  /\ loc' = [loc EXCEPT ![p].config = r.config]
           /\ Return(p, r.err)
    /\ UNCHANGED <<servers, keypairs, files, nextKey, calls>>

\* The two places findConfigFile looks in, relative to the current
\* directory and to the home directory.
LocalConfigPath == ".config/tint.yaml"

HomeConfigPath == "~/.config/tint/tint.yaml"

\* findConfigFile: the local file when os.Getwd succeeds and the file is
\* there, else the home file when os.UserHomeDir succeeds and the file is
\* there, else an error.
findConfigFile(disk) ==
    IF disk.cwdOK /\ LocalConfigPath \in DOMAIN disk.files
    THEN [path |-> LocalConfigPath, err |-> "nil"]
    ELSE IF disk.homeOK /\ HomeConfigPath \in DOMAIN disk.files
    THEN [path |-> HomeConfigPath, err |-> "nil"]
    ELSE [path |-> "", err |-> "config file not found"]

\* The head of LoadConfig: the file findConfigFile names, read and parsed by
\* loadConfigFromFile, or no file when it names none.
FoundConfigFile(disk) ==
    LET f == findConfigFile(disk)
    IN  IF f.err # "nil" THEN [found |-> FALSE]
        ELSE IF ~disk.files[f.path].parses
        THEN [found |-> TRUE, parses |-> FALSE]
        ELSE [found |-> TRUE, parses |-> TRUE,
              yaml |-> disk.files[f.path].yaml]

\* One call of LoadConfig on the invocation's disk and environment.
LoadConfigFromDisk(p) ==
    /\ pc[p] = "find"
    /\ LET cf == FoundConfigFile(loc[p].disk)
           r == LoadConfig(cf, loc[p].environ)
       IN  /\ loc' = [loc EXCEPT ![p].configFile = cf, ![p].config = r.config]
           /\ Return(p, r.err)
    /\ UNCHANGED <<servers, keypairs, files, nextKey, calls>>

----------------------------------------------------------------------------
(* terminate (terminate.go) *)

\* Index of the first server of the list with the given name, 0 if none.
FirstNamed(list, name) ==
    IF \E i \in 1..Len(list) : list[i].Name = name
    THEN CHOOSE i \in 1..Len(list) :
            /\ list[i].Name = name
            /\ \A j \in 1..(i - 1) : list[j].Name # name
    ELSE 0

Resolved(id, name, full, log) ==
    [err |-> "nil", serverID |-> id, instanceName |-> name,
     fullInstanceName |-> full, calls |-> log]

Unresolved(e, log) ==
    [err |-> e, serverID |-> EmptyStr, instanceName |-> EmptyStr,
     fullInstanceName |-> EmptyStr, calls |-> log]

ResolveTerminate_IDFirst(instanceIdentifier, svrs, listOK, getOK) ==
    LET list == ListInstances(svrs)
        got == GetInstance(svrs, instanceIdentifier, getOK)
        target == IF HasPrefix(instanceIdentifier, InstanceNamePrefix)
                  THEN instanceIdentifier ELSE FullName(instanceIdentifier)
        i == FirstNamed(list, target)
        getCall == Call("GetInstance", instanceIdentifier, ~got.err)
        listCall == Call("ListInstances", EmptyStr, listOK)
    IN  IF ~got.err
        THEN Resolved(instanceIdentifier,
                      TrimPrefix(got.server.Name, InstanceNamePrefix),
                      got.server.Name, <<getCall>>)
        ELSE IF ~listOK
        THEN Unresolved("failed to list instances", <<getCall, listCall>>)
        ELSE IF i = 0
        THEN Unresolved("instance not found", <<getCall, listCall>>)
        ELSE Resolved(list[i].ID, TrimPrefix(list[i].Name, InstanceNamePrefix),
                      list[i].Name, <<getCall, listCall>>)

\* A resolution that never fetches the identifier as an instance ID.
ResolveTerminate_NoFallback(instanceIdentifier, svrs, listOK, getOK) ==
    LET list == ListInstances(svrs)
        target == IF HasPrefix(instanceIdentifier, InstanceNamePrefix)
                  THEN instanceIdentifier ELSE FullName(instanceIdentifier)
        i == FirstNamed(list, target)
        listCall == Call("ListInstances", EmptyStr, listOK)
    IN  IF ~listOK
        THEN Unresolved("failed to list instances", <<listCall>>)
        ELSE IF i = 0
        THEN Unresolved("instance not found", <<listCall>>)
        ELSE Resolved(list[i].ID, TrimPrefix(list[i].Name, InstanceNamePrefix),
                      list[i].Name, <<listCall>>)

\* terminate's identifier resolution (terminate.go 48-110).
ResolveTerminate(instanceIdentifier, svrs, listOK, getOK) ==
    LET list == ListInstances(svrs)
        listCall == Call("ListInstances", EmptyStr, listOK)
    IN  IF HasPrefix(instanceIdentifier, InstanceNamePrefix)
        THEN \* a full instance name
            LET i == FirstNamed(list, instanceIdentifier)
            IN  IF ~listOK
                THEN Unresolved("failed to list instances", <<listCall>>)
                ELSE IF i = 0
                THEN Unresolved("instance not found", <<listCall>>)
                ELSE Resolved(list[i].ID,
                              TrimPrefix(instanceIdentifier, InstanceNamePrefix),
                              instanceIdentifier, <<listCall>>)
        ELSE \* the name without the prefix, or an instance ID
            LET fullName == FullName(instanceIdentifier)
                i == FirstNamed(list, fullName)
                got == GetInstance(svrs, instanceIdentifier, getOK)
                getCall == Call("GetInstance", instanceIdentifier, ~got.err)
            IN  IF ~listOK
                THEN Unresolved("failed to list instances", <<listCall>>)
                ELSE IF i # 0
                THEN Resolved(list[i].ID, instanceIdentifier, list[i].Name,
                              <<listCall>>)
                ELSE IF got.err
                THEN Unresolved("failed to get instance", <<listCall, getCall>>)
                ELSE Resolved(instanceIdentifier,
                              IF HasPrefix(got.server.Name, InstanceNamePrefix)
                              THEN TrimPrefix(got.server.Name, InstanceNamePrefix)
                              ELSE got.server.Name,
                              got.server.Name, <<listCall, getCall>>)

\* terminateCmd.RunE up to the client: the --all flag and the argument
\* count, then LoadConfig and NewOpenStackClient.
TerminateStart(p) ==
    /\ pc[p] = "idle"
    /\ \E all \in BOOLEAN, cfg \in LoadConfigOutcomes, authOK \in BOOLEAN,
          args \in {<<>>} \cup {<<id>> : id \in Identifiers} :
        /\ loc' = [loc EXCEPT ![p] =
                      [InitLoc EXCEPT !.cmd = "terminate", !.args = args,
                                      !.all = all]]
        /\ IF all /\ Len(args) > 0 THEN
               /\ Return(p, "cannot specify instance identifier with --all flag")
               /\ UNCHANGED calls
           ELSE IF ~all /\ Len(args) = 0 THEN
               /\ Return(p, "instance identifier required")
               /\ UNCHANGED calls
           ELSE ClientSetup(p, cfg, authOK,
                            IF all THEN "ta_list" ELSE "t_resolve")
    /\ UNCHANGED <<servers, keypairs, files, nextKey>>

\* terminateCmd.RunE: resolve the identifier to serverID, instanceName and
\* fullInstanceName.
TerminateResolve(p) ==
    /\ pc[p] = "t_resolve"
    /\ \E listOK \in BOOLEAN, getOK \in BOOLEAN :
        LET r == ResolveTerminate(loc[p].args[1], servers, listOK, getOK)
        IN  /\ calls' = Log(p, r.calls)
            /\ loc' = [loc EXCEPT ![p].serverID = r.serverID,
                                  ![p].instanceName = r.instanceName,
                                  ![p].fullInstanceName = r.fullInstanceName]
            /\ IF r.err # "nil" THEN Return(p, r.err) ELSE Goto(p, "t_delete")
    /\ UNCHANGED <<servers, keypairs, files, nextKey>>

TerminateDeleteInstance_IgnoreError(p) ==
    /\ pc[p] = "t_delete"
    /\ \E ok \in BOOLEAN :
        LET r == DeleteInstance(servers, loc[p].serverID, ok)
        IN  /\ servers' = r.servers
            /\ calls' = Log(p, <<Call("DeleteInstance", loc[p].serverID, ~r.err)>>)
            /\ Goto(p, "t_keypair")
    /\ UNCHANGED <<keypairs, files, nextKey, loc>>

\* terminateCmd.RunE: delete the instance; a failure is returned.
TerminateDeleteInstance(p) ==
    /\ pc[p] = "t_delete"
    /\ \E ok \in BOOLEAN :
        LET r == DeleteInstance(servers, loc[p].serverID, ok)
        IN  /\ servers' = r.servers
            /\ calls' = Log(p, <<Call("DeleteInstance", loc[p].serverID, ~r.err)>>)
            /\ IF r.err THEN Return(p, "failed to delete instance")
               ELSE Goto(p, "t_keypair")
    /\ UNCHANGED <<keypairs, files, nextKey, loc>>

TerminateDeleteKeypair_Fatal(p) ==
    /\ pc[p] = "t_keypair"
    /\ \E ok \in BOOLEAN :
        LET r == DeleteKeypair(keypairs, loc[p].fullInstanceName, ok)
        IN  /\ keypairs' = r.keypairs
            /\ calls' = Log(p, <<Call("DeleteKeypair", loc[p].fullInstanceName,
                                      ~r.err)>>)
            /\ IF r.err THEN Return(p, "failed to delete keypair")
               ELSE Goto(p, "t_sshkey")
    /\ UNCHANGED <<servers, files, nextKey, loc>>

\* terminateCmd.RunE: delete the keypair named like the instance unless the
\* name is empty; a failure is a warning.
TerminateDeleteKeypair(p) ==
    /\ pc[p] = "t_keypair"
    /\ IF loc[p].fullInstanceName # EmptyStr THEN
           \E ok \in BOOLEAN :
               LET r == DeleteKeypair(keypairs, loc[p].fullInstanceName, ok)
               IN  /\ keypairs' = r.keypairs
                   /\ calls' = Log(p, <<Call("DeleteKeypair",
                                             loc[p].fullInstanceName, ~r.err)>>)
       ELSE UNCHANGED <<keypairs, calls>>
    /\ Goto(p, "t_sshkey")
    /\ UNCHANGED <<servers, files, nextKey, loc>>

\* terminateCmd.RunE: delete the local keys unless the short name is empty;
\* a failure is a warning; return nil.
TerminateDeleteSSHKey(p) ==
    /\ pc[p] = "t_sshkey"
    /\ IF loc[p].instanceName # EmptyStr THEN
           \E deniedPriv \in BOOLEAN, deniedPub \in BOOLEAN :
               LET r == DeleteSSHKey(files, loc[p].instanceName,
                                     deniedPriv, deniedPub)
               IN  /\ files' = r.files
                   /\ calls' = Log(p, <<KeyCall("DeleteSSHKey",
                                        loc[p].instanceName, r.err = "nil",
                                        KeyFilesOf(files, loc[p].instanceName))>>)
       ELSE UNCHANGED <<files, calls>>
    /\ Return(p, "nil")
    /\ UNCHANGED <<servers, keypairs, nextKey, loc>>

\* terminateAllInstances: list the managed instances.
TerminateAllList(p) ==
    /\ pc[p] = "ta_list"
    /\ \E listOK \in BOOLEAN :
        /\ calls' = Log(p, <<Call("ListInstances", EmptyStr, listOK)>>)
        /\ IF ~listOK THEN
               /\ Return(p, "failed to list instances")
               /\ UNCHANGED loc
           ELSE
               /\ Goto(p, "ta_loop")
               /\ loc' = [loc EXCEPT ![p].list = ListInstances(servers),
                                     ![p].idx = 1]
    /\ UNCHANGED <<servers, keypairs, files, nextKey>>

\* One iteration of the loop of terminateAllInstances on one listed server:
\* what it does to the provider and the key directory, and the calls it makes.
TerminateOne(server, svrs, kps, fs, delOK, kpOK, deniedPriv, deniedPub) ==
    LET del == DeleteInstance(svrs, server.ID, delOK)
        delCall == Call("DeleteInstance", server.ID, ~del.err)
        kp == DeleteKeypair(kps, server.Name, kpOK)
        kpCalls == IF server.Name # EmptyStr
                   THEN <<Call("DeleteKeypair", server.Name, ~kp.err)>>
                   ELSE <<>>
        instanceName == IF HasPrefix(server.Name, InstanceNamePrefix)
                        THEN TrimPrefix(server.Name, InstanceNamePrefix)
                        ELSE server.Name
        ssh == DeleteSSHKey(fs, instanceName, deniedPriv, deniedPub)
        sshCalls == IF instanceName # EmptyStr
                    THEN <<KeyCall("DeleteSSHKey", instanceName, ssh.err = "nil",
                                   KeyFilesOf(fs, instanceName))>>
                    ELSE <<>>
    IN  IF del.err
        THEN [servers |-> svrs, keypairs |-> kps, files |-> fs,
              calls |-> <<delCall>>]
        ELSE [servers |-> del.servers,
              keypairs |-> IF server.Name # EmptyStr THEN kp.keypairs ELSE kps,
              files |-> IF instanceName # EmptyStr THEN ssh.files ELSE fs,
              calls |-> <<delCall>> \o kpCalls \o sshCalls]

\* A loop body that aborts the batch on a failed deletion.
TerminateAllStep_AbortOnError(p) ==
    /\ pc[p] = "ta_loop"
    /\ loc[p].idx <= Len(loc[p].list)
    /\ \E delOK \in BOOLEAN, kpOK \in BOOLEAN,
          deniedPriv \in BOOLEAN, deniedPub \in BOOLEAN :
        LET r == TerminateOne(loc[p].list[loc[p].idx], servers, keypairs, files,
                              delOK, kpOK, deniedPriv, deniedPub)
        IN  /\ servers' = r.servers
            /\ keypairs' = r.keypairs
            /\ files' = r.files
            /\ calls' = Log(p, r.calls)
            /\ IF r.calls[1].ok THEN UNCHANGED <<pc, ret>>
               ELSE Return(p, "failed to delete instance")
    /\ loc' = [loc EXCEPT ![p].idx = loc[p].idx + 1]
    /\ UNCHANGED nextKey

\* terminateAllInstances: the loop body for the next listed server.
TerminateAllStep(p) ==
    /\ pc[p] = "ta_loop"
    /\ loc[p].idx <= Len(loc[p].list)
    /\ \E delOK \in BOOLEAN, kpOK \in BOOLEAN,
          deniedPriv \in BOOLEAN, deniedPub \in BOOLEAN :
        LET r == TerminateOne(loc[p].list[loc[p].idx], servers, keypairs, files,
                              delOK, kpOK, deniedPriv, deniedPub)
        IN  /\ servers' = r.servers
            /\ keypairs' = r.keypairs
            /\ files' = r.files
            /\ calls' = Log(p, r.calls)
    /\ loc' = [loc EXCEPT ![p].idx = loc[p].idx + 1]
    /\ UNCHANGED <<nextKey, pc, ret>>

\* cleanupOrphanedKeypairs: no keypair is touched, no error.
CleanupOrphanedKeypairs(kps) == [err |-> "nil", keypairs |-> kps]

\* terminateAllInstances: after the loop, the orphan sweep; return nil.
TerminateAllFinish(p) ==
    /\ pc[p] = "ta_loop"
    /\ loc[p].idx > Len(loc[p].list)
    /\ keypairs' = CleanupOrphanedKeypairs(keypairs).keypairs
    /\ Return(p, "nil")
    /\ UNCHANGED <<servers, files, nextKey, loc, calls>>

----------------------------------------------------------------------------
(* create (create.go) *)

\* The word lists of generateInstanceName, each word a string.
adjectives ==
    <<
       <<"a", "d", "m", "i", "r", "i", "n", "g">>,
       <<"a", "d", "o", "r", "i", "n", "g">>,
       <<"a", "g", "i", "t", "a", "t", "e", "d">>,
       <<"a", "m", "a", "z", "i", "n", "g">>,
       <<"a", "n", "g", "r", "y">>,
       <<"a", "w", "e", "s", "o", "m", "e">>,
       <<"b", "e", "a", "u", "t", "i", "f", "u", "l">>,
       <<"b", "l", "i", "s", "s", "f", "u", "l">>,
       <<"b", "o", "l", "d">>,
       <<"b", "o", "r", "i", "n", "g">>,
       <<"b", "r", "a", "v", "e">>,
       <<"b", "u", "s", "y">>,
       <<"c", "h", "a", "r", "m", "i", "n", "g">>,
       <<"c", "l", "e", "v", "e", "r">>,
       <<"c", "o", "o", "l">>,
       <<"c", "o", "m", "p", "a", "s", "s", "i", "o", "n", "a", "t", "e">>,
       <<"c", "o", "m", "p", "e", "t", "e", "n", "t">>,
       <<"c", "o", "n", "d", "e", "s", "c", "e", "n", "d", "i", "n", "g">>,
       <<"c", "o", "n", "f", "i", "d", "e", "n", "t">>,
       <<"c", "r", "a", "n", "k", "y">>,
       <<"c", "r", "a", "z", "y">>,
       <<"d", "a", "z", "z", "l", "i", "n", "g">>,
       <<"d", "e", "t", "e", "r", "m", "i", "n", "e", "d">>,
       <<"d", "i", "s", "t", "r", "a", "c", "t", "e", "d">>,
       <<"d", "r", "e", "a", "m", "y">>,
       <<"e", "a", "g", "e", "r">>,
       <<"e", "c", "s", "t", "a", "t", "i", "c">>,
       <<"e", "l", "a", "s", "t", "i", "c">>,
       <<"e", "l", "a", "t", "e", "d">>,
       <<"e", "l", "e", "g", "a", "n", "t">>,
       <<"e", "l", "o", "q", "u", "e", "n", "t">>,
       <<"e", "p", "i", "c">>,
       <<"e", "x", "c", "i", "t", "i", "n", "g">>,
       <<"f", "e", "r", "v", "e", "n", "t">>,
       <<"f", "e", "s", "t", "i", "v", "e">>,
       <<"f", "l", "a", "m", "b", "o", "y", "a", "n", "t">>,
       <<"f", "o", "c", "u", "s", "e", "d">>,
       <<"f", "r", "i", "e", "n", "d", "l", "y">>,
       <<"f", "r", "o", "s", "t", "y">>,
       <<"f", "u", "n", "n", "y">>,
       <<"g", "a", "l", "l", "a", "n", "t">>,
       <<"g", "i", "f", "t", "e", "d">>,
       <<"g", "o", "o", "f", "y">>,
       <<"g", "r", "a", "c", "i", "o", "u", "s">>,
       <<"g", "r", "e", "a", "t">>,
       <<"h", "a", "p", "p", "y">>,
       <<"h", "a", "r", "d", "c", "o", "r", "e">>,
       <<"h", "e", "u", "r", "i", "s", "t", "i", "c">>,
       <<"h", "o", "p", "e", "f", "u", "l">>,
       <<"h", "u", "n", "g", "r", "y">>,
       <<"i", "n", "f", "a", "l", "l", "i", "b", "l", "e">>,
       <<"i", "n", "s", "p", "i", "r", "i", "n", "g">>,
       <<"i", "n", "t", "e", "l", "l", "i", "g", "e", "n", "t">>,
       <<"i", "n", "t", "e", "r", "e", "s", "t", "i", "n", "g">>,
       <<"j", "o", "l", "l", "y">>,
       <<"j", "o", "v", "i", "a", "l">>,
       <<"k", "e", "e", "n">>,
       <<"k", "i", "n", "d">>,
       <<"l", "a", "u", "g", "h", "i", "n", "g">>,
       <<"l", "o", "v", "i", "n", "g">>,
       <<"l", "u", "c", "i", "d">>,
       <<"m", "a", "g", "i", "c", "a", "l">>,
       <<"m", "y", "s", "t", "i", "c", "a", "l">>,
       <<"m", "o", "d", "e", "s", "t">>,
       <<"m", "u", "s", "i", "n", "g">>,
       <<"n", "a", "u", "g", "h", "t", "y">>,
       <<"n", "e", "r", "v", "o", "u", "s">>,
       <<"n", "i", "c", "e">>,
       <<"n", "i", "f", "t", "y">>,
       <<"n", "o", "s", "t", "a", "l", "g", "i", "c">>,
       <<"o", "b", "j", "e", "c", "t", "i", "v", "e">>,
       <<"o", "p", "t", "i", "m", "i", "s", "t", "i", "c">>,
       <<"p", "e", "a", "c", "e", "f", "u", "l">>,
       <<"p", "e", "d", "a", "n", "t", "i", "c">>,
       <<"p", "e", "n", "s", "i", "v", "e">>,
       <<"p", "r", "a", "c", "t", "i", "c", "a", "l">>,
       <<"p", "r", "i", "c", "e", "l", "e", "s", "s">>,
       <<"q", "u", "i", "r", "k", "y">>,
       <<"q", "u", "i", "z", "z", "i", "c", "a", "l">>,
       <<"r", "e", "c", "u", "r", "s", "i", "n", "g">>,
       <<"r", "e", "l", "a", "x", "e", "d">>,
       <<"r", "e", "v", "e", "r", "e", "n", "t">>,
       <<"r", "o", "m", "a", "n", "t", "i", "c">>,
       <<"s", "a", "d">>,
       <<"s", "e", "r", "e", "n", "e">>,
       <<"s", "h", "a", "r", "p">>,
       <<"s", "i", "l", "l", "y">>,
       <<"s", "l", "e", "e", "p", "y">>,
       <<"s", "t", "o", "i", "c">>,
       <<"s", "t", "r", "a", "n", "g", "e">>,
       <<"s", "t", "u", "p", "e", "f", "i", "e", "d">>,
       <<"s", "u", "s", "p", "i", "c", "i", "o", "u", "s">>,
       <<"s", "w", "e", "e", "t">>,
       <<"t", "e", "n", "d", "e", "r">>,
       <<"t", "h", "i", "r", "s", "t", "y">>,
       <<"t", "r", "u", "s", "t", "i", "n", "g">>,
       <<"u", "n", "r", "u", "f", "f", "l", "e", "d">>,
       <<"u", "p", "b", "e", "a", "t">>,
       <<"v", "i", "b", "r", "a", "n", "t">>,
       <<"v", "i", "g", "i", "l", "a", "n", "t">>,
       <<"v", "i", "g", "o", "r", "o", "u", "s">>,
       <<"w", "i", "z", "a", "r", "d", "l", "y">>,
       <<"w", "o", "n", "d", "e", "r", "f", "u", "l">>,
       <<"x", "e", "n", "o", "d", "o", "c", "h", "i", "a", "l">>,
       <<"y", "o", "u", "t", "h", "f", "u", "l">>,
       <<"z", "e", "a", "l", "o", "u", "s">>,
       <<"z", "e", "n">>
    >>

nouns ==
    <<
       <<"a", "l", "b", "a", "t", "t", "a", "n", "i">>,
       <<"a", "l", "l", "e", "n">>,
       <<"a", "l", "m", "e", "i", "d", "a">>,
       <<"a", "g", "n", "e", "s", "i">>,
       <<"a", "r", "c", "h", "i", "m", "e", "d", "e", "s">>,
       <<"a", "r", "d", "i", "n", "g", "h", "e", "l", "l", "i">>,
       <<"a", "r", "y", "a", "b", "h", "a", "t", "a">>,
       <<"a", "u", "s", "t", "i", "n">>,
       <<"b", "a", "b", "b", "a", "g", "e">>,
       <<"b", "a", "n", "a", "c", "h">>,
       <<"b", "a", "n", "z", "a", "i">>,
       <<"b", "a", "r", "d", "e", "e", "n">>,
       <<"b", "a", "r", "t", "i", "k">>,
       <<"b", "a", "s", "s", "i">>,
       <<"b", "e", "a", "v", "e", "r">>,
       <<"b", "e", "l", "l">>,
       <<"b", "e", "n", "z">>,
       <<"b", "h", "a", "b", "h", "a">>,
       <<"b", "h", "a", "s", "k", "a", "r", "a">>,
       <<"b", "l", "a", "c", "k">>,
       <<"b", "l", "a", "c", "k", "b", "u", "r", "n">>,
       <<"b", "l", "a", "c", "k", "w", "e", "l", "l">>,
       <<"b", "o", "h", "r">>,
       <<"b", "o", "o", "t", "h">>,
       <<"b", "o", "r", "g">>,
       <<"b", "o", "s", "e">>,
       <<"b", "o", "u", "m", "a", "n">>,
       <<"b", "o", "y", "d">>,
       <<"b", "r", "a", "h", "m", "a", "g", "u", "p", "t", "a">>,
       <<"b", "r", "a", "t", "t", "a", "i", "n">>,
       <<"b", "r", "o", "w", "n">>,
       <<"b", "u", "c", "k">>,
       <<"b", "u", "r", "n", "e", "l", "l">>,
       <<"c", "a", "n", "n", "o", "n">>,
       <<"c", "a", "r", "s", "o", "n">>,
       <<"c", "a", "r", "t", "w", "r", "i", "g", "h", "t">>,
       <<"c", "a", "r", "v", "e", "r">>,
       <<"c", "e", "r", "f">>,
       <<"c", "h", "a", "n", "d", "r", "a", "s", "e", "k", "h", "a", "r">>,
       <<"c", "h", "a", "p", "l", "y", "g", "i", "n">>,
       <<"c", "h", "a", "t", "e", "l", "e", "t">>,
       <<"c", "h", "a", "t", "t", "e", "r", "j", "e", "e">>,
       <<"c", "h", "e", "b", "y", "s", "h", "e", "v">>,
       <<"c", "l", "a", "r", "k", "e">>,
       <<"c", "o", "h", "e", "n">>,
       <<"c", "o", "l", "d", "e", "n">>,
       <<"c", "o", "r", "i">>,
       <<"c", "r", "a", "y">>,
       <<"c", "u", "r", "i", "e">>,
       <<"c", "u", "r", "r", "a", "n">>,
       <<"d", "a", "r", "w", "i", "n">>,
       <<"d", "a", "v", "i", "n", "c", "i">>,
       <<"d", "e", "w", "d", "n", "e", "y">>,
       <<"d", "h", "a", "w", "a", "n">>,
       <<"d", "i", "f", "f", "i", "e">>,
       <<"d", "i", "j", "k", "s", "t", "r", "a">>,
       <<"d", "i", "r", "a", "c">>,
       <<"d", "r", "i", "s", "c", "o", "l", "l">>,
       <<"d", "u", "b", "i", "n", "s", "k", "y">>,
       <<"e", "a", "s", "l", "e", "y">>,
       <<"e", "d", "i", "s", "o", "n">>,
       <<"e", "i", "n", "s", "t", "e", "i", "n">>,
       <<"e", "l", "b", "a", "k", "y", "a", "n">>,
       <<"e", "l", "g", "a", "m", "a", "l">>,
       <<"e", "l", "i", "o", "n">>,
       <<"e", "l", "l", "i", "s">>,
       <<"e", "n", "g", "e", "l", "b", "a", "r", "t">>,
       <<"e", "u", "c", "l", "i", "d">>,
       <<"e", "u", "l", "e", "r">>,
       <<"f", "a", "r", "a", "d", "a", "y">>,
       <<"f", "e", "i", "s", "t", "e", "l">>,
       <<"f", "e", "r", "m", "a", "t">>,
       <<"f", "e", "r", "m", "i">>,
       <<"f", "e", "y", "n", "m", "a", "n">>,
       <<"f", "r", "a", "n", "k", "l", "i", "n">>,
       <<"g", "a", "g", "a", "r", "i", "n">>,
       <<"g", "a", "l", "i", "l", "e", "o">>,
       <<"g", "a", "l", "o", "i", "s">>,
       <<"g", "a", "n", "g", "u", "l", "y">>,
       <<"g", "a", "t", "e", "s">>,
       <<"g", "a", "u", "s", "s">>,
       <<"g", "e", "r", "m", "a", "i", "n">>,
       <<"g", "o", "l", "d", "b", "e", "r", "g">>,
       <<"g", "o", "l", "d", "s", "t", "i", "n", "e">>,
       <<"g", "o", "l", "d", "w", "a", "s", "s", "e", "r">>,
       <<"g", "o", "l", "i", "c", "k">>,
       <<"g", "o", "o", "d", "a", "l", "l">>,
       <<"g", "o", "u", "l", "d">>,
       <<"g", "r", "e", "i", "d", "e", "r">>,
       <<"g", "r", "o", "t", "h", "e", "n", "d", "i", "e", "c", "k">>,
       <<"h", "a", "i", "b", "t">>,
       <<"h", "a", "m", "i", "l", "t", "o", "n">>,
       <<"h", "a", "s", "l", "e", "t", "t">>,
       <<"h", "a", "w", "k", "i", "n", "g">>,
       <<"h", "e", "i", "s", "e", "n", "b", "e", "r", "g">>,
       <<"h", "e", "l", "l", "m", "a", "n">>,
       <<"h", "e", "r", "m", "a", "n", "n">>,
       <<"h", "e", "r", "s", "c", "h", "e", "l">>,
       <<"h", "e", "r", "t", "z">>,
       <<"h", "e", "y", "r", "o", "v", "s", "k", "y">>,
       <<"h", "o", "d", "g", "k", "i", "n">>,
       <<"h", "o", "f", "s", "t", "a", "d", "t", "e", "r">>,
       <<"h", "o", "o", "v", "e", "r">>,
       <<"h", "o", "p", "p", "e", "r">>,
       <<"h", "u", "g", "l", "e">>,
       <<"h", "y", "p", "a", "t", "i", "a">>,
       <<"i", "s", "h", "i", "z", "a", "k", "a">>,
       <<"j", "a", "c", "k", "s", "o", "n">>,
       <<"j", "a", "n", "g">>,
       <<"j", "e", "m", "i", "s", "o", "n">>,
       <<"j", "e", "n", "n", "i", "n", "g", "s">>,
       <<"j", "e", "p", "s", "e", "n">>,
       <<"j", "o", "h", "n", "s", "o", "n">>,
       <<"j", "o", "l", "i", "o", "t">>,
       <<"j", "o", "n", "e", "s">>,
       <<"k", "a", "l", "a", "m">>,
       <<"k", "a", "p", "i", "t", "s", "a">>,
       <<"k", "a", "r", "e">>,
       <<"k", "e", "l", "d", "y", "s", "h">>,
       <<"k", "e", "l", "l", "e", "r">>,
       <<"k", "e", "p", "l", "e", "r">>,
       <<"k", "h", "a", "y", "y", "a", "m">>,
       <<"k", "h", "o", "r", "a", "n", "a">>,
       <<"k", "i", "l", "b", "y">>,
       <<"k", "i", "r", "c", "h">>,
       <<"k", "n", "u", "t", "h">>,
       <<"k", "o", "w", "a", "l", "e", "v", "s", "k", "i">>,
       <<"l", "a", "l", "a", "n", "d", "e">>,
       <<"l", "a", "m", "a", "r", "r">>,
       <<"l", "a", "m", "p", "o", "r", "t">>,
       <<"l", "e", "a", "k", "e", "y">>,
       <<"l", "e", "a", "v", "i", "t", "t">>,
       <<"l", "e", "d", "e", "r", "b", "e", "r", "g">>,
       <<"l", "e", "h", "m", "a", "n", "n">>,
       <<"l", "e", "w", "i", "n">>,
       <<"l", "i", "c", "h", "t", "e", "r", "m", "a", "n">>,
       <<"l", "i", "s", "k", "o", "v">>,
       <<"l", "o", "v", "e", "l", "a", "c", "e">>,
       <<"l", "u", "m", "i", "e", "r", "e">>,
       <<"m", "a", "h", "a", "v", "i", "r", "a">>,
       <<"m", "a", "r", "g", "u", "l", "i", "s">>,
       <<"m", "a", "t", "s", "u", "m", "o", "t", "o">>,
       <<"m", "a", "x", "w", "e", "l", "l">>,
       <<"m", "a", "y", "e", "r">>,
       <<"m", "c", "c", "a", "r", "t", "h", "y">>,
       <<"m", "c", "c", "l", "i", "n", "t", "o", "c", "k">>,
       <<"m", "c", "l", "a", "r", "e", "n">>,
       <<"m", "c", "l", "e", "a", "n">>,
       <<"m", "c", "n", "u", "l", "t", "y">>,
       <<"m", "e", "i", "t", "n", "e", "r">>,
       <<"m", "e", "n", "d", "e", "l">>,
       <<"m", "e", "n", "d", "e", "l", "e", "e", "v">>,
       <<"m", "e", "n", "i", "n", "s", "k", "y">>,
       <<"m", "e", "r", "k", "l", "e">>,
       <<"m", "e", "s", "t", "o", "r", "f">>,
       <<"m", "i", "n", "s", "k", "y">>,
       <<"m", "i", "r", "z", "a", "k", "h", "a", "n", "i">>,
       <<"m", "o", "o", "r", "e">>,
       <<"m", "o", "r", "s", "e">>,
       <<"m", "u", "r", "d", "o", "c", "k">>,
       <<"m", "o", "s", "e", "r">>,
       <<"n", "a", "p", "i", "e", "r">>,
       <<"n", "a", "s", "h">>,
       <<"n", "e", "u", "m", "a", "n", "n">>,
       <<"n", "e", "w", "t", "o", "n">>,
       <<"n", "i", "g", "h", "t", "i", "n", "g", "a", "l", "e">>,
       <<"n", "o", "b", "e", "l">>,
       <<"n", "o", "e", "t", "h", "e", "r">>,
       <<"n", "o", "r", "t", "h", "c", "u", "t", "t">>,
       <<"n", "o", "y", "c", "e">>,
       <<"p", "a", "n", "i", "n", "i">>,
       <<"p", "a", "r", "e">>,
       <<"p", "a", "s", "c", "a", "l">>,
       <<"p", "a", "s", "t", "e", "u", "r">>,
       <<"p", "a", "y", "n", "e">>,
       <<"p", "e", "r", "l", "m", "a", "n">>,
       <<"p", "i", "k", "e">>,
       <<"p", "o", "i", "n", "c", "a", "r", "e">>,
       <<"p", "o", "i", "t", "r", "a", "s">>,
       <<"p", "r", "o", "s", "k", "u", "r", "i", "a", "k", "o", "v", "a">>,
       <<"p", "t", "o", "l", "e", "m", "y">>,
       <<"r", "a", "m", "a", "n">>,
       <<"r", "a", "m", "a", "n", "u", "j", "a", "n">>,
       <<"r", "i", "d", "e">>,
       <<"m", "o", "n", "t", "a", "l", "c", "i", "n", "i">>,
       <<"r", "i", "t", "c", "h", "i", "e">>,
       <<"r", "h", "o", "d", "e", "s">>,
       <<"r", "o", "b", "i", "n", "s", "o", "n">>,
       <<"r", "o", "e", "n", "t", "g", "e", "n">>,
       <<"r", "o", "s", "a", "l", "i", "n", "d">>,
       <<"r", "u", "b", "i", "n">>,
       <<"s", "a", "h", "a">>,
       <<"s", "a", "m", "m", "e", "t">>,
       <<"s", "a", "n", "d", "e", "r", "s", "o", "n">>,
       <<"s", "a", "t", "o", "s", "h", "i">>,
       <<"s", "h", "a", "m", "i", "r">>,
       <<"s", "h", "a", "n", "n", "o", "n">>,
       <<"s", "h", "a", "w">>,
       <<"s", "h", "i", "r", "l", "e", "y">>,
       <<"s", "h", "o", "c", "k", "l", "e", "y">>,
       <<"s", "h", "t", "e", "r", "n">>,
       <<"s", "i", "n", "o", "u", "s", "s", "i">>,
       <<"s", "n", "y", "d", "e", "r">>,
       <<"s", "o", "l", "o", "m", "o", "n">>,
       <<"s", "p", "e", "n", "c", "e">>,
       <<"s", "t", "o", "n", "e", "b", "r", "a", "k", "e", "r">>,
       <<"s", "u", "t", "h", "e", "r", "l", "a", "n", "d">>,
       <<"s", "w", "a", "n", "s", "o", "n">>,
       <<"s", "w", "a", "r", "t", "z">>,
       <<"s", "w", "i", "r", "l", "e", "s">>,
       <<"t", "a", "u", "s", "s", "i", "g">>,
       <<"t", "e", "r", "e", "s", "h", "k", "o", "v", "a">>,
       <<"t", "e", "s", "l", "a">>,
       <<"t", "h", "a", "r", "p">>,
       <<"t", "h", "o", "m", "p", "s", "o", "n">>,
       <<"t", "o", "r", "v", "a", "l", "d", "s">>,
       <<"t", "u">>,
       <<"t", "u", "r", "i", "n", "g">>,
       <<"v", "a", "r", "a", "h", "a", "m", "i", "h", "i", "r", "a">>,
       <<"v", "a", "u", "g", "h", "a", "n">>,
       <<"v", "i", "s", "v", "e", "s", "v", "a", "r", "a", "y", "a">>,
       <<"v", "o", "l", "h", "a", "r", "d">>,
       <<"v", "i", "l", "l", "a", "n", "i">>,
       <<"w", "a", "h">>,
       <<"w", "i", "l", "e", "s">>,
       <<"w", "i", "l", "l", "i", "a", "m", "s">>,
       <<"w", "i", "l", "l", "i", "a", "m", "s", "o", "n">>,
       <<"w", "i", "l", "s", "o", "n">>,
       <<"w", "i", "n", "g">>,
       <<"w", "o", "z", "n", "i", "a", "k">>,
       <<"w", "r", "i", "g", "h", "t">>,
       <<"w", "u">>,
       <<"y", "a", "l", "o", "w">>,
       <<"y", "o", "n", "a", "t", "h">>,
       <<"z", "h", "u", "k", "o", "v", "s", "k", "y">>
    >>

\* A name of the two words run together.
generateInstanceName_NoHyphen(adjIdx, nounIdx) ==
    adjectives[adjIdx + 1] \o nouns[nounIdx + 1]

\* generateInstanceName: "<adjective>-<noun>" for the two random indices.
generateInstanceName(adjIdx, nounIdx) ==
    adjectives[adjIdx + 1] \o <<"-">> \o nouns[nounIdx + 1]

\* The random indices the model draws: the ends of each list.
RandomDraws ==
    {<<a, n>> : a \in {0, Len(adjectives) - 1}, n \in {0, Len(nouns) - 1}}

\* What a user may type as the name of a new instance.
CreateNames == {<<"a">>, <<"b">>}

CreateFaults == {"none", "image", "flavor", "network", "keypair", "server"}

\* The IDs the provider may give a new server: those no server has.
FreshIDs(svrs) == {id \in ServerIDs \cup {<<"n">>} : IndexOfID(svrs, id) = 0}

\* A CreateInstance that takes the keypair back when the server call fails.
CreateInstance_RetractsKeypair(svrs, kps, instanceName, publicKey, fault, newID) ==
    LET kp == CreateKeypair(kps, instanceName, publicKey, fault # "keypair")
        withKey == publicKey # NoPublicKey
        kpsAfter == IF withKey THEN kp.keypairs ELSE kps
        kpCalls == IF withKey
                   THEN <<Call("CreateKeypair", instanceName, ~kp.err)>>
                   ELSE <<>>
        server == Server(newID, instanceName, MetaTrue, "BUILD", NoAddresses)
        lookups(n) == SubSeq(<<Call("FindImageByName", EmptyStr, fault # "image"),
                               Call("FindFlavorByName", EmptyStr, fault # "flavor"),
                               Call("FindNetworkByName", EmptyStr,
                                    fault # "network")>>, 1, n)
        fail(e, k, log) ==
            [err |-> e, servers |-> svrs, keypairs |-> k, server |-> NoServer,
             calls |-> log]
    IN  CASE fault = "image" -> fail("image not found", kps, lookups(1))
          [] fault = "flavor" -> fail("flavor not found", kps, lookups(2))
          [] fault = "network" -> fail("network not found", kps, lookups(3))
          [] withKey /\ kp.err ->
                fail("failed to create keypair", kps, lookups(3) \o kpCalls)
          [] fault = "server" ->
                fail("failed to create server", kps,
                     lookups(3) \o kpCalls
                        \o <<Call("CreateServer", instanceName, FALSE)>>)
          [] OTHER ->
                [err |-> "nil", servers |-> Append(svrs, server),
                 keypairs |-> kpsAfter, server |-> server,
                 calls |-> lookups(3) \o kpCalls
                              \o <<Call("CreateServer", instanceName, TRUE)>>]

\* CreateInstance: look up image, flavor and network, register the keypair
\* under the instance's name, create the server with metadata tins=true.
\* fault names the first call that fails; the keypair call also fails when
\* the name is taken.
CreateInstance(svrs, kps, instanceName, publicKey, fault, newID) ==
    LET kp == CreateKeypair(kps, instanceName, publicKey, fault # "keypair")
        withKey == publicKey # NoPublicKey
        kpsAfter == IF withKey THEN kp.keypairs ELSE kps
        kpCalls == IF withKey
                   THEN <<Call("CreateKeypair", instanceName, ~kp.err)>>
                   ELSE <<>>
        server == Server(newID, instanceName, MetaTrue, "BUILD", NoAddresses)
        lookups(n) == SubSeq(<<Call("FindImageByName", EmptyStr, fault # "image"),
                               Call("FindFlavorByName", EmptyStr, fault # "flavor"),
                               Call("FindNetworkByName", EmptyStr,
                                    fault # "network")>>, 1, n)
        fail(e, k, log) ==
            [err |-> e, servers |-> svrs, keypairs |-> k, server |-> NoServer,
             calls |-> log]
    IN  CASE fault = "image" -> fail("image not found", kps, lookups(1))
          [] fault = "flavor" -> fail("flavor not found", kps, lookups(2))
          [] fault = "network" -> fail("network not found", kps, lookups(3))
          [] withKey /\ kp.err ->
                fail("failed to create keypair", kps, lookups(3) \o kpCalls)
          [] fault = "server" ->
                fail("failed to create server", kpsAfter,
                     lookups(3) \o kpCalls
                        \o <<Call("CreateServer", instanceName, FALSE)>>)
          [] OTHER ->
                [err |-> "nil", servers |-> Append(svrs, server),
                 keypairs |-> kpsAfter, server |-> server,
                 calls |-> lookups(3) \o kpCalls
                              \o <<Call("CreateServer", instanceName, TRUE)>>]

\* createCmd.RunE up to the client: the name from the argument or generated,
\* the full name, then LoadConfig and NewOpenStackClient.
CreateStart(p) ==
    /\ pc[p] = "idle"
    /\ \E args \in {<<>>, <<EmptyStr>>} \cup {<<n>> : n \in CreateNames},
          randOK \in BOOLEAN, draw \in RandomDraws,
          cfg \in LoadConfigOutcomes, authOK \in BOOLEAN :
        LET given == Len(args) > 0 /\ args[1] # EmptyStr
            instanceName == IF given THEN args[1]
                            ELSE generateInstanceName(draw[1], draw[2])
        IN  IF ~given /\ ~randOK THEN
                /\ loc' = [loc EXCEPT ![p] =
                              [InitLoc EXCEPT !.cmd = "create", !.args = args]]
                /\ Return(p, "failed to generate instance name")
                /\ UNCHANGED calls
            ELSE
                /\ loc' = [loc EXCEPT ![p] =
                              [InitLoc EXCEPT !.cmd = "create", !.args = args,
                                  !.instanceName = instanceName,
                                  !.fullInstanceName = FullName(instanceName)]]
                /\ ClientSetup(p, cfg, authOK, "c_keygen")
    /\ UNCHANGED <<servers, keypairs, files, nextKey>>

\* Every pair of indices rand.Int can return for the two lists.
AllDraws ==
    {<<a, n>> : a \in 0 .. Len(adjectives) - 1, n \in 0 .. Len(nouns) - 1}

\* The head of createCmd.RunE alone: the name from the argument, or
\* generated from any pair of random indices, and the full name.
CreateName(p) ==
    /\ pc[p] = "name"
    /\ \E args \in {<<>>, <<EmptyStr>>} \cup {<<n>> : n \in CreateNames},
          randOK \in BOOLEAN, draw \in AllDraws :
        LET given == Len(args) > 0 /\ args[1] # EmptyStr
            instanceName == IF given THEN args[1]
                            ELSE generateInstanceName(draw[1], draw[2])
        IN  IF ~given /\ ~randOK THEN
                /\ loc' = [loc EXCEPT ![p] =
                              [InitLoc EXCEPT !.cmd = "name", !.args = args]]
                /\ Return(p, "failed to generate instance name")
            ELSE
                /\ loc' = [loc EXCEPT ![p] =
                              [InitLoc EXCEPT !.cmd = "name", !.args = args,
                                  !.instanceName = instanceName,
                                  !.fullInstanceName = FullName(instanceName)]]
                /\ Return(p, "nil")
    /\ UNCHANGED <<servers, keypairs, files, nextKey, calls>>

\* A create that goes on to the provider after a failed key generation.
CreateGenerateKey_IgnoreError(p) ==
    /\ pc[p] = "c_keygen"
    /\ \E fault \in GenerateFaults :
        LET r == GenerateSSHKey(files, loc[p].instanceName, nextKey, fault)
        IN  /\ files' = r.files
            /\ nextKey' = IF fault \in {"mkdir", "rsa"} THEN nextKey
                          ELSE nextKey + 1
            /\ calls' = Log(p, <<KeyCall("GenerateSSHKey", loc[p].instanceName,
                                         r.err = "nil",
                                         KeyFilesOf(files, loc[p].instanceName))>>)
            /\ loc' = [loc EXCEPT ![p].publicKey = r.PublicKey]
            /\ Goto(p, "c_create")
    /\ UNCHANGED <<servers, keypairs>>

\* createCmd.RunE: generate the local key pair; a failure is returned.
CreateGenerateKey(p) ==
    /\ pc[p] = "c_keygen"
    /\ \E fault \in GenerateFaults :
        LET r == GenerateSSHKey(files, loc[p].instanceName, nextKey, fault)
        IN  /\ files' = r.files
            /\ nextKey' = IF fault \in {"mkdir", "rsa"} THEN nextKey
                          ELSE nextKey + 1
            /\ calls' = Log(p, <<KeyCall("GenerateSSHKey", loc[p].instanceName,
                                         r.err = "nil",
                                         KeyFilesOf(files, loc[p].instanceName))>>)
            /\ loc' = [loc EXCEPT ![p].publicKey = r.PublicKey]
            /\ IF r.err # "nil" THEN Return(p, "failed to generate SSH key")
               ELSE Goto(p, "c_create")
    /\ UNCHANGED <<servers, keypairs>>

\* createCmd.RunE: create the instance; on failure go on to the cleanup.
CreateInstanceStep(p) ==
    /\ pc[p] = "c_create"
    /\ \E fault \in CreateFaults, newID \in FreshIDs(servers) :
        LET r == CreateInstance(servers, keypairs, loc[p].fullInstanceName,
                                loc[p].publicKey, fault, newID)
        IN  /\ servers' = r.servers
            /\ keypairs' = r.keypairs
            /\ calls' = Log(p, r.calls \o <<Call("CreateInstance",
                                    loc[p].fullInstanceName, r.err = "nil")>>)
            /\ loc' = [loc EXCEPT ![p].selectedServer = r.server,
                                  ![p].serverID = r.server.ID]
            /\ Goto(p, IF r.err # "nil" THEN "c_rollback" ELSE "c_wait")
    /\ UNCHANGED <<files, nextKey>>

CreateRollback_NoCleanup(p) ==
    /\ pc[p] = "c_rollback"
    /\ Return(p, "failed to create instance")
    /\ UNCHANGED <<servers, keypairs, files, nextKey, loc, calls>>

\* createCmd.RunE: after a failed CreateInstance delete the local keys (a
\* failure of that is a warning) and return the creation error.
CreateRollback(p) ==
    /\ pc[p] = "c_rollback"
    /\ \E deniedPriv \in BOOLEAN, deniedPub \in BOOLEAN :
        LET r == DeleteSSHKey(files, loc[p].instanceName, deniedPriv, deniedPub)
        IN  /\ files' = r.files
            /\ calls' = Log(p, <<KeyCall("DeleteSSHKey", loc[p].instanceName,
                                         r.err = "nil",
                                         KeyFilesOf(files, loc[p].instanceName))>>)
    /\ Return(p, "failed to create instance")
    /\ UNCHANGED <<servers, keypairs, nextKey, loc>>

\* The fixed polling interval and create's overall timeout, in seconds.
PollInterval == 5
WaitTimeout == 300

\* A poll that keeps polling a server in ERROR.
PollOnce_ErrorRetried(svrs, serverID, getOK, now) ==
    LET got == GetInstance(svrs, serverID, getOK)
    IN  IF got.err THEN "failed to get server"
        ELSE IF got.server.Status = "ACTIVE" THEN "nil"
        ELSE IF now + 1 > WaitTimeout
        THEN "timeout waiting for server to become active"
        ELSE "again"

\* One poll of WaitForInstanceActive at time now (seconds after the deadline
\* was set; the status is read a moment after the tick).
PollOnce(svrs, serverID, getOK, now) ==
    LET got == GetInstance(svrs, serverID, getOK)
    IN  IF got.err THEN "failed to get server"
        ELSE IF got.server.Status = "ACTIVE" THEN "nil"
        ELSE IF got.server.Status = "ERROR" THEN "server entered ERROR state"
        ELSE IF now + 1 > WaitTimeout
        THEN "timeout waiting for server to become active"
        ELSE "again"

\* The provider finishes building a server: it becomes ACTIVE with an
\* address, or ERROR.
ProviderBuild ==
    /\ \E i \in 1..Len(servers), status \in {"ACTIVE", "ERROR"} :
        /\ servers[i].Status = "BUILD"
        /\ servers' = [servers EXCEPT ![i].Status = status,
                          ![i].Addresses = IF status = "ACTIVE" THEN OneFixed
                                           ELSE NoAddresses]
    /\ UNCHANGED <<keypairs, files, nextKey, pc, loc, calls, ret>>

\* createCmd.RunE in WaitForInstanceActive: the next tick and its poll.
CreatePoll(p) ==
    /\ pc[p] = "c_wait"
    /\ \E getOK \in BOOLEAN :
        LET now == loc[p].now + PollInterval
            r == PollOnce(servers, loc[p].serverID, getOK, now)
        IN  /\ calls' = Log(p, <<Call("GetInstance", loc[p].serverID,
                                      r # "failed to get server")>>)
            /\ loc' = [loc EXCEPT ![p].now = now,
                                  ![p].waitErr = IF r = "again" THEN "" ELSE r]
            /\ Goto(p, IF r = "again" THEN "c_wait" ELSE "c_refetch")
    /\ UNCHANGED <<servers, keypairs, files, nextKey>>

\* Whether an address entry is one the tool uses: typed fixed or floating
\* with an address, or untyped with an address.
UsableAddr(entry) ==
    IF "OS-EXT-IPS:type" \in DOMAIN entry
    THEN /\ entry["OS-EXT-IPS:type"] \in {"fixed", "floating"}
         /\ "addr" \in DOMAIN entry
    ELSE "addr" \in DOMAIN entry

RECURSIVE Flatten(_, _)
\* The address entries in the order a range over the map visits them.
Flatten(addresses, order) ==
    IF order = <<>> THEN <<>>
    ELSE addresses[Head(order)] \o Flatten(addresses, Tail(order))

\* The orders in which Go may range over the address map.
RangeOrders(addresses) ==
    {o \in [1..Cardinality(DOMAIN addresses) -> DOMAIN addresses] :
        \A i, j \in DOMAIN o : o[i] = o[j] => i = j}

\* extractIPAddress: the first usable address in range order.
extractIPAddress(server, order) ==
    LET entries == Flatten(server.Addresses, order)
        hits == SelectSeq(entries, UsableAddr)
    IN  IF DOMAIN server.Addresses = {}
        THEN [err |-> "no IP addresses found", addr |-> ""]
        ELSE IF hits = <<>>
        THEN [err |-> "no valid IP address found", addr |-> ""]
        ELSE [err |-> "nil", addr |-> hits[1]["addr"]]

\* A create that returns the error of the wait instead of re-fetching.
CreateRefetch_FailOnWaitError(p) ==
    /\ pc[p] = "c_refetch"
    /\ \E getOK \in BOOLEAN :
        LET got == GetInstance(servers, loc[p].serverID, getOK)
        IN  IF loc[p].waitErr # "nil" THEN
                /\ Return(p, loc[p].waitErr)
                /\ UNCHANGED <<calls, loc>>
            ELSE
                /\ calls' = Log(p, <<Call("GetInstance", loc[p].serverID,
                                          ~got.err)>>)
                /\ loc' = [loc EXCEPT ![p].selectedServer =
                              IF got.err THEN NoServer ELSE got.server]
                /\ Return(p, "nil")
    /\ UNCHANGED <<servers, keypairs, files, nextKey>>

\* createCmd.RunE: re-fetch the instance to report its addresses; return nil.
CreateRefetch(p) ==
    /\ pc[p] = "c_refetch"
    /\ \E getOK \in BOOLEAN :
        LET got == GetInstance(servers, loc[p].serverID, getOK)
        IN  /\ calls' = Log(p, <<Call("GetInstance", loc[p].serverID, ~got.err)>>)
            /\ loc' = [loc EXCEPT ![p].selectedServer =
                          IF got.err THEN NoServer ELSE got.server]
    /\ Return(p, "nil")
    /\ UNCHANGED <<servers, keypairs, files, nextKey>>

----------------------------------------------------------------------------
(* connect (connect.go) *)

\* Whether the name search of connect takes this listed server.
ConnectNameMatch(server, instanceIdentifier) ==
    \/ server.Name = instanceIdentifier
    \/ server.ID = instanceIdentifier
    \/ /\ HasPrefix(server.Name, InstanceNamePrefix)
       /\ TrimPrefix(server.Name, InstanceNamePrefix) = instanceIdentifier

FirstMatch(list, instanceIdentifier) ==
    IF \E i \in 1..Len(list) : ConnectNameMatch(list[i], instanceIdentifier)
    THEN CHOOSE i \in 1..Len(list) :
            /\ ConnectNameMatch(list[i], instanceIdentifier)
            /\ \A j \in 1..(i - 1) : ~ConnectNameMatch(list[j], instanceIdentifier)
    ELSE 0

ResolveConnect_NoManagedCheck(instanceIdentifier, svrs, getOK, listOK) ==
    LET got == GetInstance(svrs, instanceIdentifier, getOK)
        getCall == Call("GetInstance", instanceIdentifier, ~got.err)
        listCall == Call("ListInstances", EmptyStr, listOK)
        list == ListInstances(svrs)
        i == FirstMatch(list, instanceIdentifier)
    IN  IF ~got.err
        THEN [err |-> "nil", selectedServer |-> got.server, calls |-> <<getCall>>]
        ELSE IF ~listOK
        THEN [err |-> "failed to list instances", selectedServer |-> NoServer,
              calls |-> <<getCall, listCall>>]
        ELSE IF i = 0
        THEN [err |-> "instance not found", selectedServer |-> NoServer,
              calls |-> <<getCall, listCall>>]
        ELSE [err |-> "nil", selectedServer |-> list[i],
              calls |-> <<getCall, listCall>>]

\* A resolution that searches the managed list by name before it fetches the
\* identifier as an ID.
ResolveConnect_NameFirst(instanceIdentifier, svrs, getOK, listOK) ==
    LET got == GetInstance(svrs, instanceIdentifier, getOK)
        getCall == Call("GetInstance", instanceIdentifier, ~got.err)
        listCall == Call("ListInstances", EmptyStr, listOK)
        byID == /\ ~got.err
                /\ \/ HasTinsTag(got.server)
                   \/ HasTinsPrefix(got.server)
        list == ListInstances(svrs)
        i == FirstMatch(list, instanceIdentifier)
    IN  IF ~listOK
        THEN [err |-> "failed to list instances", selectedServer |-> NoServer,
              calls |-> <<listCall>>]
        ELSE IF i # 0
        THEN [err |-> "nil", selectedServer |-> list[i], calls |-> <<listCall>>]
        ELSE IF byID
        THEN [err |-> "nil", selectedServer |-> got.server,
              calls |-> <<listCall, getCall>>]
        ELSE [err |-> "instance not found", selectedServer |-> NoServer,
              calls |-> <<listCall, getCall>>]

\* connect's identifier resolution (connect.go 152-196): fetch by ID first
\* and keep the server if it is tagged or prefixed; otherwise search the
\* managed list.
ResolveConnect(instanceIdentifier, svrs, getOK, listOK) ==
    LET got == GetInstance(svrs, instanceIdentifier, getOK)
        getCall == Call("GetInstance", instanceIdentifier, ~got.err)
        listCall == Call("ListInstances", EmptyStr, listOK)
        byID == /\ ~got.err
                /\ \/ HasTinsTag(got.server)
                   \/ HasTinsPrefix(got.server)
        list == ListInstances(svrs)
        i == FirstMatch(list, instanceIdentifier)
    IN  IF byID
        THEN [err |-> "nil", selectedServer |-> got.server, calls |-> <<getCall>>]
        ELSE IF ~listOK
        THEN [err |-> "failed to list instances", selectedServer |-> NoServer,
              calls |-> <<getCall, listCall>>]
        ELSE IF i = 0
        THEN [err |-> "instance not found", selectedServer |-> NoServer,
              calls |-> <<getCall, listCall>>]
        ELSE [err |-> "nil", selectedServer |-> list[i],
              calls |-> <<getCall, listCall>>]

\* Extra words a user may put after the identifier.
ExtraArgs == {<<"-v">>}

\* connectCmd up to the client: cobra.RangeArgs(0, 1) refuses more than one
\* argument before RunE runs; then LoadConfig and NewOpenStackClient.
ConnectStart(p) ==
    /\ pc[p] = "idle"
    /\ \E args \in {<<>>} \cup {<<id>> : id \in Identifiers}
                    \cup {<<id, x>> : id \in {<<"a">>}, x \in ExtraArgs},
          cfg \in LoadConfigOutcomes, authOK \in BOOLEAN :
        /\ loc' = [loc EXCEPT ![p] =
                      [InitLoc EXCEPT !.cmd = "connect", !.args = args]]
        /\ IF Len(args) > 1 THEN
               /\ Return(p, "accepts between 0 and 1 arg(s)")
               /\ UNCHANGED calls
           ELSE ClientSetup(p, cfg, authOK, "n_select")
    /\ UNCHANGED <<servers, keypairs, files, nextKey>>

\* connectCmd.RunE: choose the server, by identifier or by opening the menu.
ConnectSelect(p) ==
    /\ pc[p] = "n_select"
    /\ \E getOK \in BOOLEAN, listOK \in BOOLEAN, termboxOK \in BOOLEAN :
        IF Len(loc[p].args) > 0 /\ loc[p].args[1] # EmptyStr THEN
            LET r == ResolveConnect(loc[p].args[1], servers, getOK, listOK)
            IN  /\ calls' = Log(p, r.calls)
                /\ loc' = [loc EXCEPT ![p].selectedServer = r.selectedServer]
                /\ IF r.err # "nil" THEN Return(p, r.err) ELSE Goto(p, "n_ssh")
        ELSE
            /\ calls' = Log(p, <<Call("ListInstances", EmptyStr, listOK)>>)
            /\ IF ~listOK THEN
                   /\ Return(p, "failed to list instances")
                   /\ UNCHANGED loc
               ELSE IF Len(ListInstances(servers)) = 0 THEN
                   /\ Return(p, "no instances available")
                   /\ UNCHANGED loc
               ELSE IF ~termboxOK THEN
                   /\ Return(p, "failed to initialize termbox")
                   /\ UNCHANGED loc
               ELSE
                   /\ Goto(p, "n_menu")
                   /\ loc' = [loc EXCEPT ![p].list = ListInstances(servers),
                                         ![p].idx = 0]
    /\ UNCHANGED <<servers, keypairs, files, nextKey>>

MenuEvents == {"ArrowUp", "ArrowDown", "Enter", "Esc", "CtrlC", "Other", "Error"}

\* A menu whose Enter returns the first instance of the list.
ConnectMenuEvent_EnterTakesFirst(p) ==
    /\ pc[p] = "n_menu"
    /\ \E ev \in MenuEvents :
        LET selected == loc[p].idx
        IN  CASE ev = "ArrowUp" ->
                    /\ loc' = [loc EXCEPT ![p].idx =
                                  IF selected > 0 THEN selected - 1 ELSE selected]
                    /\ UNCHANGED <<pc, ret>>
              [] ev = "ArrowDown" ->
                    /\ loc' = [loc EXCEPT ![p].idx =
                                  IF selected < Len(loc[p].list) - 1
                                  THEN selected + 1 ELSE selected]
                    /\ UNCHANGED <<pc, ret>>
              [] ev = "Enter" ->
                    /\ loc' = [loc EXCEPT ![p].selectedServer = loc[p].list[1]]
                    /\ Goto(p, "n_ssh")
              [] ev \in {"Esc", "CtrlC"} ->
                    /\ Return(p, "cancelled by user")
                    /\ UNCHANGED loc
              [] ev = "Error" ->
                    /\ Return(p, "termbox error")
                    /\ UNCHANGED loc
              [] OTHER -> UNCHANGED <<pc, ret, loc>>
    /\ UNCHANGED <<servers, keypairs, files, nextKey, calls>>

\* showInstanceMenu: one event of the input loop; idx is `selected`.
ConnectMenuEvent(p) ==
    /\ pc[p] = "n_menu"
    /\ \E ev \in MenuEvents :
        LET selected == loc[p].idx
        IN  CASE ev = "ArrowUp" ->
                    /\ loc' = [loc EXCEPT ![p].idx =
                                  IF selected > 0 THEN selected - 1 ELSE selected]
                    /\ UNCHANGED <<pc, ret>>
              [] ev = "ArrowDown" ->
                    /\ loc' = [loc EXCEPT ![p].idx =
                                  IF selected < Len(loc[p].list) - 1
                                  THEN selected + 1 ELSE selected]
                    /\ UNCHANGED <<pc, ret>>
              [] ev = "Enter" ->
                    /\ loc' = [loc EXCEPT ![p].selectedServer =
                                  loc[p].list[selected + 1]]
                    /\ Goto(p, "n_ssh")
              [] ev \in {"Esc", "CtrlC"} ->
                    /\ Return(p, "cancelled by user")
                    /\ UNCHANGED loc
              [] ev = "Error" ->
                    /\ Return(p, "termbox error")
                    /\ UNCHANGED loc
              [] OTHER -> UNCHANGED <<pc, ret, loc>>
    /\ UNCHANGED <<servers, keypairs, files, nextKey, calls>>

\* A connect that launches ssh without looking for the private key.
ConnectRun_NoKeyCheck(p) ==
    /\ pc[p] = "n_ssh"
    /\ \E order \in RangeOrders(loc[p].selectedServer.Addresses),
          sshOK \in BOOLEAN :
        LET selectedServer == loc[p].selectedServer
            instanceName == TrimPrefix(selectedServer.Name, InstanceNamePrefix)
            ip == extractIPAddress(selectedServer, order)
            sshKeyPath == GetSSHKeyPath(instanceName)
            sshArgs == <<<<"-i">>, sshKeyPath, <<"-o">>,
                         <<"StrictHostKeyChecking=no">>, <<"-o">>,
                         <<"UserKnownHostsFile=/dev/null">>,
                         <<"root@", ip.addr>>>>
                       \o (IF Len(loc[p].args) > 1
                           THEN SubSeq(loc[p].args, 2, Len(loc[p].args))
                           ELSE <<>>)
        IN  /\ loc' = [loc EXCEPT ![p].instanceName = instanceName,
                                  ![p].ipAddress = ip.addr]
            /\ IF ip.err # "nil" THEN
                   /\ Return(p, "failed to get IP address")
                   /\ UNCHANGED calls
               ELSE
                   /\ calls' = Log(p, <<Call("ssh", sshArgs, sshOK)>>)
                   /\ Return(p, IF sshOK THEN "nil" ELSE "SSH connection failed")
    /\ UNCHANGED <<servers, keypairs, files, nextKey>>

\* connectCmd.RunE after the selection: the short name, the address, the
\* private key that must exist, and the ssh client.
ConnectRun(p) ==
    /\ pc[p] = "n_ssh"
    /\ \E order \in RangeOrders(loc[p].selectedServer.Addresses),
          sshOK \in BOOLEAN :
        LET selectedServer == loc[p].selectedServer
            instanceName == TrimPrefix(selectedServer.Name, InstanceNamePrefix)
            ip == extractIPAddress(selectedServer, order)
            sshKeyPath == GetSSHKeyPath(instanceName)
            sshArgs == <<<<"-i">>, sshKeyPath, <<"-o">>,
                         <<"StrictHostKeyChecking=no">>, <<"-o">>,
                         <<"UserKnownHostsFile=/dev/null">>,
                         <<"root@", ip.addr>>>>
                       \o (IF Len(loc[p].args) > 1
                           THEN SubSeq(loc[p].args, 2, Len(loc[p].args))
                           ELSE <<>>)
        IN  /\ loc' = [loc EXCEPT ![p].instanceName = instanceName,
                                  ![p].ipAddress = ip.addr]
            /\ IF ip.err # "nil" THEN
                   /\ Return(p, "failed to get IP address")
                   /\ UNCHANGED calls
               ELSE IF ~Exists(files, sshKeyPath) THEN
                   /\ Return(p, "SSH key not found")
                   /\ UNCHANGED calls
               ELSE
                   /\ calls' = Log(p, <<Call("ssh", sshArgs, sshOK)>>)
                   /\ Return(p, IF sshOK THEN "nil" ELSE "SSH connection failed")
    /\ UNCHANGED <<servers, keypairs, files, nextKey>>

----------------------------------------------------------------------------
(* list (list.go) *)

\* listCmd.RunE: the managed instances as rows; list holds what is printed.
ListRun(p) ==
    /\ pc[p] = "idle"
    /\ \E cfg \in LoadConfigOutcomes, authOK \in BOOLEAN, listOK \in BOOLEAN :
        IF cfg # "ok" \/ ~authOK THEN
            /\ ClientSetup(p, cfg, authOK, "done")
            /\ loc' = [loc EXCEPT ![p] = [InitLoc EXCEPT !.cmd = "list"]]
        ELSE
            /\ calls' = Log(p, <<Call("Authenticate", EmptyStr, TRUE),
                                 Call("ListInstances", EmptyStr, listOK)>>)
            /\ loc' = [loc EXCEPT ![p] =
                          [InitLoc EXCEPT !.cmd = "list",
                              !.list = IF listOK THEN ListInstances(servers)
                                       ELSE <<>>]]
            /\ Return(p, IF listOK THEN "nil" ELSE "failed to list instances")
    /\ UNCHANGED <<servers, keypairs, files, nextKey>>

----------------------------------------------------------------------------
(* The key manager called directly, as ssh_test.go does *)

KeyNames == {<<"a">>}

KeysGenerate(p) ==
    /\ pc[p] = "keys"
    /\ Len(calls[p]) < MaxKeyOps
    /\ \E instanceName \in KeyNames, fault \in GenerateFaults :
        LET r == GenerateSSHKey(files, instanceName, nextKey, fault)
        IN  /\ files' = r.files
            /\ nextKey' = IF fault \in {"mkdir", "rsa"} THEN nextKey
                          ELSE nextKey + 1
            /\ calls' = Log(p, <<KeyCall("GenerateSSHKey", instanceName,
                                         r.err = "nil",
                                         KeyFilesOf(files, instanceName))>>)
    /\ UNCHANGED <<servers, keypairs, pc, loc, ret>>

KeysDelete(p) ==
    /\ pc[p] = "keys"
    /\ Len(calls[p]) < MaxKeyOps
    /\ \E instanceName \in KeyNames,
          deniedPriv \in BOOLEAN, deniedPub \in BOOLEAN :
        LET r == DeleteSSHKey(files, instanceName, deniedPriv, deniedPub)
        IN  /\ files' = r.files
            /\ calls' = Log(p, <<KeyCall("DeleteSSHKey", instanceName,
                                         r.err = "nil",
                                         KeyFilesOf(files, instanceName))>>)
    /\ UNCHANGED <<servers, keypairs, nextKey, pc, loc, ret>>

----------------------------------------------------------------------------
(* extractIPAddress called directly on a server *)

\* The longest address list of a network in the servers drawn.
MaxAddrs == 2

\* Address entries: typed fixed, floating or otherwise, or untyped; with an
\* address or without.
AddrEntries ==
    {AddrEntry("fixed", "10.0.0.1"), AddrEntry("floating", "203.0.113.2"),
     AddrEntry("other", "192.0.2.3"), ("addr" :> "198.51.100.4"),
     ("OS-EXT-IPS:type" :> "fixed"), ("version" :> "4")}

\* Address maps over at most two networks.
AddressMaps ==
    LET lists == SeqsUpTo(AddrEntries, MaxAddrs)
    IN  {NoAddresses}
        \cup {("private" :> l) : l \in lists}
        \cup {("private" :> l) @@ ("public" :> m) : l \in lists, m \in lists}

\* extractIPAddress on the selected server, ranging over the map in any order.
ExtractRun(p) ==
    /\ pc[p] = "extract"
    /\ \E order \in RangeOrders(loc[p].selectedServer.Addresses) :
        LET ip == extractIPAddress(loc[p].selectedServer, order)
        IN  /\ loc' = [loc EXCEPT ![p].ipAddress = ip.addr]
            /\ Return(p, ip.err)
    /\ UNCHANGED <<servers, keypairs, files, nextKey, calls>>

----------------------------------------------------------------------------
(* Initial states and specifications *)

\* The key files of a short name, written by an earlier run (key 0).
KeyFiles(instanceName, kinds) ==
    [path \in {GetSSHKeyPath(instanceName) : k \in kinds \cap {"priv"}}
              \cup {PubPath(GetSSHKeyPath(instanceName)) : k \in kinds \cap {"pub"}}
        |-> IF path = GetSSHKeyPath(instanceName) THEN PrivateKeyPEM(0)
            ELSE PublicKeyString(0)]

\* Key directories holding, for each of the two short names, the files of
\* one of the given sets of kinds.
KeyDirs(kindSets) ==
    {KeyFiles(<<"a">>, ka) @@ KeyFiles(<<"b">>, kb) :
        ka \in kindSets, kb \in kindSets}

\* The remote keypairs of an earlier run: none, or one per server name.
KeypairSets ==
    {{}, {[name |-> n, publicKey |-> PublicKeyString(0)] : n \in ServerNames}}

\* One invocation (p1) about to run a command, on any provider listing.
InitWith(listings, dirs, kpsets, start) ==
    /\ servers \in listings
    /\ keypairs \in kpsets
    /\ files \in dirs
    /\ nextKey = 1
    /\ pc = [p \in Procs |-> IF p = "p1" THEN start ELSE "off"]
    /\ loc = [p \in Procs |-> InitLoc]
    /\ calls = [p \in Procs |-> <<>>]
    /\ ret = [p \in Procs |-> "none"]

ManagedOrNot == ServersOver(ServerIDs, ServerNames, {MetaNil, MetaTrue})

\* The key directory empty, or holding both files of both short names.
EmptyOrFull ==
    {KeyFiles(<<"a">>, k) @@ KeyFiles(<<"b">>, k) : k \in {{}, {"priv", "pub"}}}

Init ==
    InitWith(ProviderListings(ManagedOrNot, MaxServers),
             EmptyOrFull, KeypairSets, "idle")

Terminate(p) ==
    \/ TerminateStart(p)
    \/ TerminateResolve(p)
    \/ TerminateDeleteInstance(p)
    \/ TerminateDeleteKeypair(p)
    \/ TerminateDeleteSSHKey(p)
    \/ TerminateAllList(p)
    \/ TerminateAllStep(p)
    \/ TerminateAllFinish(p)

Create(p) ==
    \/ CreateStart(p)
    \/ CreateGenerateKey(p)
    \/ CreateInstanceStep(p)
    \/ CreateRollback(p)
    \/ CreatePoll(p)
    \/ CreateRefetch(p)

Connect(p) ==
    \/ ConnectStart(p)
    \/ ConnectSelect(p)
    \/ ConnectMenuEvent(p)
    \/ ConnectRun(p)

Next ==
    \/ \E p \in Procs : Terminate(p)
    \/ \E p \in Procs : Create(p)
    \/ \E p \in Procs : Connect(p)
    \/ \E p \in Procs : ListRun(p)
    \/ ProviderBuild

Spec == Init /\ [][Next]_vars

\* terminate alone.
NextTerminate == \E p \in Procs : Terminate(p)

\* The key directory holding both files of both short names.
FullDir == {KeyFiles(<<"a">>, k) @@ KeyFiles(<<"b">>, k) : k \in {{"priv", "pub"}}}

InitTerminate ==
    InitWith(ProviderListings(ManagedOrNot, MaxServers), FullDir, KeypairSets,
             "idle")

SpecTerminate == InitTerminate /\ [][NextTerminate]_vars

\* create alone, with the provider building the new server, on a provider
\* that is empty or already has a server named tins-a.
InitCreate ==
    InitWith(ProviderListings(ServersOver({<<"x">>}, {FullName(<<"a">>)},
                                          {MetaTrue}), 1),
             EmptyOrFull, KeypairSets, "idle")

NextCreate ==
    \/ \E p \in Procs : Create(p)
    \/ ProviderBuild

SpecCreate == InitCreate /\ [][NextCreate]_vars

\* connect alone.
NextConnect == \E p \in Procs : Connect(p)

SpecConnect == InitTerminate /\ [][NextConnect]_vars

\* An invocation of terminate or of connect.
NextResolve ==
    \/ \E p \in Procs : Terminate(p)
    \/ \E p \in Procs : Connect(p)

SpecResolve == InitTerminate /\ [][NextResolve]_vars

\* list alone, on servers with any of the metadata shapes.
InitList ==
    InitWith(ProviderListings(ServersOver(ServerIDs, ServerNames, AllMetas),
                              MaxServers),
             FullDir, {{}}, "idle")

NextList == \E p \in Procs : ListRun(p)

SpecList == InitList /\ [][NextList]_vars

\* The key manager alone, on a key directory holding any of the files.
InitKeys ==
    InitWith({<<>>}, KeyDirs(SUBSET {"priv", "pub"}), {{}}, "keys")

NextKeys == \E p \in Procs : KeysGenerate(p) \/ KeysDelete(p)

SpecKeys == InitKeys /\ [][NextKeys]_vars

\* create with the ticker of WaitForInstanceActive firing: a poll that is
\* due is eventually made.  The provider need not ever finish the build.
SpecCreateFair == SpecCreate /\ \A p \in Procs : WF_vars(CreatePoll(p))

\* extractIPAddress alone, on a server with any of the address maps.
InitExtract ==
    /\ servers = <<>>
    /\ keypairs = {}
    /\ files \in FullDir
    /\ nextKey = 1
    /\ pc = [p \in Procs |-> IF p = "p1" THEN "extract" ELSE "off"]
    /\ loc \in {[p \in Procs |->
                    [InitLoc EXCEPT !.cmd = "extract",
                        !.selectedServer =
                            Server(<<"x">>, FullName(<<"a">>), MetaTrue,
                                   "ACTIVE", m)]] : m \in AddressMaps}
    /\ calls = [p \in Procs |-> <<>>]
    /\ ret = [p \in Procs |-> "none"]

NextExtract == \E p \in Procs : ExtractRun(p)

SpecExtract == InitExtract /\ [][NextExtract]_vars

\* connect alone, on servers with and without an address and a key
\* directory with and without the key files.
InitConnectRun ==
    InitWith(ProviderListings(
                 {Server(id, name, MetaTrue, "ACTIVE", addrs) :
                     id \in {<<"x">>, <<"y">>},
                     name \in {FullName(<<"a">>), <<"b">>},
                     addrs \in {OneFixed, NoAddresses}}, MaxServers),
             EmptyOrFull, {{}}, "idle")

SpecConnectRun == InitConnectRun /\ [][NextConnect]_vars

\* Any of create, terminate and connect, on a provider with at most one
\* server: managed by prefix and tag, managed by tag alone, or unmanaged.
InitWorkflows ==
    InitWith(ProviderListings({Server(<<"x">>, FullName(<<"a">>), MetaTrue,
                                      "ACTIVE", OneFixed),
                               Server(<<"y">>, <<"b">>, MetaTrue,
                                      "ACTIVE", OneFixed),
                               Server(<<"y">>, <<"b">>, MetaNil,
                                      "ACTIVE", OneFixed)}, 1),
             FullDir, {{}}, "idle")

NextWorkflows ==
    \/ \E p \in Procs : Create(p)
    \/ \E p \in Procs : Terminate(p)
    \/ \E p \in Procs : Connect(p)
    \/ ProviderBuild

SpecWorkflows == InitWorkflows /\ [][NextWorkflows]_vars

\* The most fields that differ from the rest in a config file or in an
\* environment: set where the others are not, or not set where they are.
MaxOddFields == 1

\* The sets of fields that are all but a few, or only a few.
FieldChoices ==
    {fs \in SUBSET ConfigFields :
        \/ Cardinality(fs) <= MaxOddFields
        \/ Cardinality(ConfigFields \ fs) <= MaxOddFields}

\* The config file: not found, found and not parsable, or a yaml document
\* with some of the keys, with or without a password key.
ConfigFiles ==
    {[found |-> FALSE], [found |-> TRUE, parses |-> FALSE]}
    \cup
    {[found |-> TRUE, parses |-> TRUE,
      yaml |-> [k \in {YamlKey(f) : f \in fs} \cup pw |->
                   IF k = "password" THEN "file-password" ELSE "file-value"]] :
        fs \in FieldChoices, pw \in {{}, {"password"}}}

\* The environment: some of the variables set, OS_PASSWORD set, set to the
\* empty string, or not set.
Environs ==
    {[k \in {EnvVar(f) : f \in fs} \cup DOMAIN pw |->
         IF k = "OS_PASSWORD" THEN pw[k] ELSE "env-value"] :
        fs \in FieldChoices,
        pw \in {<<>>, [k \in {"OS_PASSWORD"} |-> ""],
                [k \in {"OS_PASSWORD"} |-> "env-password"]}}

\* LoadConfig alone, on any config file and environment.
InitConfig ==
    /\ servers = <<>>
    /\ keypairs = {}
    /\ files \in FullDir
    /\ nextKey = 1
    /\ pc = [p \in Procs |-> IF p = "p1" THEN "config" ELSE "off"]
    /\ loc \in {[p \in Procs |->
                    [InitLoc EXCEPT !.cmd = "config", !.configFile = cf,
                                    !.environ = env]] :
                   cf \in ConfigFiles, env \in Environs}
    /\ calls = [p \in Procs |-> <<>>]
    /\ ret = [p \in Procs |-> "none"]

NextConfig == \E p \in Procs : LoadConfigRun(p)

SpecConfig == InitConfig /\ [][NextConfig]_vars

\* The paths a config file may be at: the two of the code and the two of
\* the README.
ConfigPaths ==
    {LocalConfigPath, HomeConfigPath,
     ".config/tins.yaml", "~/.config/tins/tins.yaml"}

\* A file at a path: a yaml document with every key, each value naming the
\* path, or a file that does not parse.
ConfigDocs(path) ==
    {[parses |-> TRUE, yaml |-> [k \in {YamlKey(f) : f \in ConfigFields} |-> path]],
     [parses |-> FALSE, yaml |-> <<>>]}

\* The disks: any of the paths present, the two directory lookups
\* succeeding or failing.
ConfigDisks ==
    {[files |-> fs, cwdOK |-> c, homeOK |-> h] :
        fs \in UNION {{f \in [ps -> UNION {ConfigDocs(q) : q \in ps}] :
                          \A q \in ps : f[q] \in ConfigDocs(q)} :
                      ps \in SUBSET ConfigPaths},
        c \in BOOLEAN, h \in BOOLEAN}

\* LoadConfig with its file search, on any disk, with OS_PASSWORD set and
\* the other variables all set or all unset.
InitFind ==
    /\ servers = <<>>
    /\ keypairs = {}
    /\ files \in FullDir
    /\ nextKey = 1
    /\ pc = [p \in Procs |-> IF p = "p1" THEN "find" ELSE "off"]
    /\ loc \in {[p \in Procs |->
                    [InitLoc EXCEPT !.cmd = "find", !.disk = d,
                                    !.environ = env]] :
                   d \in ConfigDisks,
                   env \in {e \in Environs :
                               /\ "OS_PASSWORD" \in DOMAIN e
                               /\ e["OS_PASSWORD"] # ""
                               /\ Cardinality(DOMAIN e) \in
                                     {1, Cardinality(ConfigFields) + 1}}}
    /\ calls = [p \in Procs |-> <<>>]
    /\ ret = [p \in Procs |-> "none"]

NextFind == \E p \in Procs : LoadConfigFromDisk(p)

SpecFind == InitFind /\ [][NextFind]_vars

\* The naming of a new instance alone.
InitNames == InitWith({<<>>}, FullDir, {{}}, "name")

NextNames == \E p \in Procs : CreateName(p)

SpecNames == InitNames /\ [][NextNames]_vars

\* Two invocations of create at once, on an empty provider and an empty
\* key directory, each followed until it returns or starts to wait for its
\* instance: the waiting touches neither the key files nor the keypairs.
InitRace ==
    /\ servers = <<>>
    /\ keypairs = {}
    /\ files \in {KeyFiles(<<"a">>, {})}
    /\ nextKey = 1
    /\ pc = [p \in Procs |-> "idle"]
    /\ loc = [p \in Procs |-> InitLoc]
    /\ calls = [p \in Procs |-> <<>>]
    /\ ret = [p \in Procs |-> "none"]

NextRace ==
    \E p \in Procs :
        \/ CreateStart(p)
        \/ CreateGenerateKey(p)
        \/ CreateInstanceStep(p)
        \/ CreateRollback(p)

SpecRace == InitRace /\ [][NextRace]_vars

----------------------------------------------------------------------------
(* Reading an invocation's call log *)

\* The positions of the log at which the given call was made.
At(p, op) == {i \in 1..Len(calls[p]) : calls[p][i].op = op}

CalledOK(p, op) == \E i \in At(p, op) : calls[p][i].ok

SingleTerminate(p) == loc[p].cmd = "terminate" /\ ~loc[p].all
BatchTerminate(p) == loc[p].cmd = "terminate" /\ loc[p].all

\* The short name terminate derives from a server's name.
ShortNameOf(name) == TrimPrefix(name, InstanceNamePrefix)

\* The server of a list with the given ID (IDs are unique).
ServerOfID(list, id) == list[IndexOfID(list, id)]

\* The IDs of a list of servers, in order.
IDsOf(list) == [i \in 1..Len(list) |-> list[i].ID]

\* The arguments of the DeleteInstance calls of the log, in order.
DeletedIDs(p) ==
    LET sel == SelectSeq(calls[p], LAMBDA c : c.op = "DeleteInstance")
    IN  [i \in 1..Len(sel) |-> sel[i].arg]

----------------------------------------------------------------------------
(* Claims *)

\* A finished terminate --all whose listing succeeded.
BatchDone(p) ==
    /\ BatchTerminate(p)
    /\ pc[p] = "done"
    /\ CalledOK(p, "ListInstances")

\* The call at position i of the log is the given call with the given argument.
CallIs(p, i, op, arg) ==
    /\ i <= Len(calls[p])
    /\ calls[p][i].op = op
    /\ calls[p][i].arg = arg

\* C2 as claimed: a finished terminate --all has called DeleteInstance once
\* on every listed instance in list order, returned nil, and attempted the
\* keypair deletion and the local key deletion of every instance it deleted.
C2_BatchCleansEveryDeleted ==
    \A p \in Procs : BatchDone(p) =>
        /\ ret[p] = "nil"
        /\ DeletedIDs(p) = IDsOf(loc[p].list)
        /\ \A i \in At(p, "DeleteInstance") : calls[p][i].ok =>
              LET name == ServerOfID(loc[p].list, calls[p][i].arg).Name
              IN  /\ CallIs(p, i + 1, "DeleteKeypair", name)
                  /\ CallIs(p, i + 2, "DeleteSSHKey", ShortNameOf(name))

\* C2 amended: as claimed, except that the local key deletion is attempted
\* only for a deleted instance whose short name (its name without tins-) is
\* not empty; for the name "tins-" it is skipped.
C2_BatchTerminate ==
    \A p \in Procs : BatchDone(p) =>
        /\ ret[p] = "nil"
        /\ DeletedIDs(p) = IDsOf(loc[p].list)
        /\ \A i \in At(p, "DeleteInstance") : calls[p][i].ok =>
              LET name == ServerOfID(loc[p].list, calls[p][i].arg).Name
              IN  /\ CallIs(p, i + 1, "DeleteKeypair", name)
                  /\ IF ShortNameOf(name) # EmptyStr
                     THEN CallIs(p, i + 2, "DeleteSSHKey", ShortNameOf(name))
                     ELSE i + 2 <= Len(calls[p]) =>
                              calls[p][i + 2].op = "DeleteInstance"

\* C2 witness: a finished terminate --all of two instances in which the
\* first deletion failed, the second succeeded, and the second's keypair
\* deletion and local key deletion were attempted and failed.
C2_Witness ==
    \E p \in Procs :
        /\ BatchDone(p)
        /\ Len(loc[p].list) = 2
        /\ \E i, j \in At(p, "DeleteInstance") :
            /\ i < j
            /\ ~calls[p][i].ok
            /\ calls[p][j].ok
            /\ CallIs(p, j + 1, "DeleteKeypair", loc[p].list[2].Name)
            /\ ~calls[p][j + 1].ok
            /\ CallIs(p, j + 2, "DeleteSSHKey", ShortNameOf(loc[p].list[2].Name))
            /\ ~calls[p][j + 2].ok
        /\ ret[p] = "nil"

\* The cleanup calls of terminate.
CleanupCalls(p) == At(p, "DeleteKeypair") \cup At(p, "DeleteSSHKey")

\* The name terminate cleans up for the DeleteInstance call at position i.
NameDeletedAt(p, i) ==
    IF loc[p].all THEN ServerOfID(loc[p].list, calls[p][i].arg).Name
    ELSE loc[p].fullInstanceName

\* The short name terminate cleans up for the DeleteInstance call at i.
ShortNameDeletedAt(p, i) ==
    IF loc[p].all THEN ShortNameOf(NameDeletedAt(p, i))
    ELSE loc[p].instanceName

\* C3: in terminate, single or --all, every DeleteKeypair and DeleteSSHKey
\* call follows a successful DeleteInstance call for the same instance, with
\* no other DeleteInstance call in between; single-target terminate calls
\* DeleteInstance at most once, exactly once when it got past it, and when
\* that call failed it returned the error without any cleanup call.
C3_CleanupOnlyAfterDelete ==
    \A p \in Procs : loc[p].cmd = "terminate" =>
        /\ \A j \in CleanupCalls(p) :
              \E i \in At(p, "DeleteInstance") :
                  /\ i < j
                  /\ calls[p][i].ok
                  /\ \A k \in At(p, "DeleteInstance") : ~(i < k /\ k < j)
                  /\ ~loc[p].all => calls[p][i].arg = loc[p].serverID
                  /\ calls[p][j].arg =
                        IF calls[p][j].op = "DeleteKeypair"
                        THEN NameDeletedAt(p, i) ELSE ShortNameDeletedAt(p, i)
        /\ SingleTerminate(p) =>
              /\ Cardinality(At(p, "DeleteInstance")) <= 1
              /\ pc[p] \in {"t_keypair", "t_sshkey"} \/ ret[p] = "nil" =>
                    Cardinality(At(p, "DeleteInstance")) = 1
              /\ \A i \in At(p, "DeleteInstance") : ~calls[p][i].ok =>
                    /\ pc[p] = "done"
                    /\ ret[p] = "failed to delete instance"
                    /\ CleanupCalls(p) = {}

\* C3 witness: a single-target terminate whose DeleteInstance call failed
\* and that returned the error.
C3_Witness ==
    \E p \in Procs :
        /\ SingleTerminate(p)
        /\ pc[p] = "done"
        /\ \E i \in At(p, "DeleteInstance") : ~calls[p][i].ok
        /\ ret[p] = "failed to delete instance"

\* A single-target terminate that is past a successful DeleteInstance call.
SingleDeleted(p) == SingleTerminate(p) /\ CalledOK(p, "DeleteInstance")

\* C4 as claimed: once DeleteInstance has succeeded, single-target terminate
\* returns nil, and it attempts DeleteKeypair and then DeleteSSHKey whatever
\* the outcome of DeleteKeypair.
C4_CleanupAlwaysAttempted ==
    \A p \in Procs : SingleDeleted(p) =>
        /\ ret[p] \in {"none", "nil"}
        /\ pc[p] = "done" =>
              \E i \in At(p, "DeleteInstance") :
                  /\ ret[p] = "nil"
                  /\ CallIs(p, i + 1, "DeleteKeypair", loc[p].fullInstanceName)
                  /\ CallIs(p, i + 2, "DeleteSSHKey", loc[p].instanceName)

\* C4 amended: as claimed, except that DeleteSSHKey is attempted only when
\* the resolved short name is not empty; for the instance "tins-" the local
\* key cleanup is skipped, after DeleteKeypair, and the command returns nil.
C4_CleanupNonFatal ==
    \A p \in Procs : SingleDeleted(p) =>
        /\ ret[p] \in {"none", "nil"}
        /\ pc[p] = "done" =>
              \E i \in At(p, "DeleteInstance") :
                  /\ ret[p] = "nil"
                  /\ CallIs(p, i + 1, "DeleteKeypair", loc[p].fullInstanceName)
                  /\ IF loc[p].instanceName # EmptyStr
                     THEN CallIs(p, i + 2, "DeleteSSHKey", loc[p].instanceName)
                     ELSE Len(calls[p]) = i + 1

\* C4 witness: a finished single-target terminate whose DeleteKeypair call
\* failed, whose DeleteSSHKey call was made after it and failed too, and
\* that returned nil.
C4_Witness ==
    \E p \in Procs :
        /\ SingleDeleted(p)
        /\ pc[p] = "done"
        /\ \E i \in At(p, "DeleteKeypair") :
            /\ ~calls[p][i].ok
            /\ CallIs(p, i + 1, "DeleteSSHKey", loc[p].instanceName)
            /\ ~calls[p][i + 1].ok
        /\ ret[p] = "nil"

\* A single-target terminate that has resolved its identifier and has not
\* deleted yet: the provider is as the resolution saw it.
JustResolved(p) == SingleTerminate(p) /\ pc[p] = "t_delete"

\* Server s is a managed instance named tins-foo and id is one of foo,
\* tins-foo and the provider ID of s.
NamesInstance(id, s) ==
    /\ IsManaged(s)
    /\ HasPrefix(s.Name, InstanceNamePrefix)
    /\ id \in {ShortNameOf(s.Name), s.Name, s.ID}

\* The resolution of terminate yielded server s.
ResolvedTo(p, s) ==
    /\ loc[p].serverID = s.ID
    /\ loc[p].fullInstanceName = s.Name
    /\ loc[p].instanceName = ShortNameOf(s.Name)

\* The managed instances of the provider listing.
ManagedOf(svrs) == {svrs[i] : i \in {j \in DOMAIN svrs : IsManaged(svrs[j])}}

Unambiguous(s, svrs) ==
    /\ \A t \in ManagedOf(svrs) :
          t.ID # s.ID => t.Name \notin {s.Name, FullName(s.ID)}
    /\ ~HasPrefix(ShortNameOf(s.Name), InstanceNamePrefix)
    /\ ~HasPrefix(s.ID, InstanceNamePrefix)

SearchedName(id) ==
    IF HasPrefix(id, InstanceNamePrefix) THEN id ELSE FullName(id)

\* A single-target terminate whose listing succeeded, whose name search found
\* no match, and that has not deleted: the provider is as the search saw it.
NameSearchMissed(p) ==
    /\ SingleTerminate(p)
    /\ pc[p] \in {"t_delete", "done"}
    /\ Len(calls[p]) >= 2
    /\ calls[p][2].op = "ListInstances"
    /\ calls[p][2].ok
    /\ At(p, "DeleteInstance") = {}
    /\ FirstNamed(ListInstances(servers), SearchedName(loc[p].args[1])) = 0

\* Terminate fetched its identifier as an instance ID right after the
\* listing, and failed only if the fetch failed.
FellBackToID(p) ==
    /\ CallIs(p, 3, "GetInstance", loc[p].args[1])
    /\ Len(calls[p]) = 3
    /\ IF calls[p][3].ok
       THEN pc[p] = "t_delete" /\ loc[p].serverID = loc[p].args[1]
       ELSE pc[p] = "done" /\ ret[p] = "failed to get instance"

\* C6 as claimed: when the name search of terminate finds no match, for a
\* prefixed identifier and for a short name alike, the identifier is fetched
\* with GetInstance, and the command fails only if that fetch fails.
C6_FallbackInBothCases ==
    \A p \in Procs : NameSearchMissed(p) => FellBackToID(p)

\* C6 amended: the fallback to GetInstance happens only for an identifier that
\* does not start with tins-; for a prefixed identifier without a name match
\* the command fails with "instance not found" and never calls GetInstance.
C6_FallbackForShortNamesOnly ==
    \A p \in Procs : NameSearchMissed(p) =>
        IF HasPrefix(loc[p].args[1], InstanceNamePrefix)
        THEN /\ pc[p] = "done"
             /\ ret[p] = "instance not found"
             /\ Len(calls[p]) = 2
        ELSE FellBackToID(p)

\* C6 witness: a short name without a match was fetched as an ID and the
\* fetch succeeded.
C6_Witness ==
    \E p \in Procs :
        /\ NameSearchMissed(p)
        /\ ~HasPrefix(loc[p].args[1], InstanceNamePrefix)
        /\ CalledOK(p, "GetInstance")
        /\ pc[p] = "t_delete"

\* The position of create's failed CreateInstance call, if any.
FailedCreate(p) == {i \in At(p, "CreateInstance") : ~calls[p][i].ok}

\* C1: in create, when CreateInstance fails after GenerateSSHKey succeeded,
\* the command calls DeleteSSHKey for the same short name as its next and
\* last step and returns the instance-creation error whether or not that
\* cleanup succeeds; when the cleanup succeeds neither key file of the name
\* remains.
C1_RollbackLocalKey ==
    \A p \in Procs : \A i \in FailedCreate(p) :
        /\ loc[p].cmd = "create"
        /\ \E g \in At(p, "GenerateSSHKey") :
              g < i /\ calls[p][g].ok /\ calls[p][g].arg = loc[p].instanceName
        /\ pc[p] \in {"c_rollback", "done"}
        /\ pc[p] = "c_rollback" => ret[p] = "none" /\ CleanupCalls(p) = {}
        /\ pc[p] = "done" =>
              /\ i < Len(calls[p])
              /\ CallIs(p, Len(calls[p]), "DeleteSSHKey", loc[p].instanceName)
              /\ At(p, "DeleteSSHKey") = {Len(calls[p])}
              /\ ret[p] = "failed to create instance"
              /\ calls[p][Len(calls[p])].ok =>
                    /\ ~Exists(files, GetSSHKeyPath(loc[p].instanceName))
                    /\ ~Exists(files, PubPath(GetSSHKeyPath(loc[p].instanceName)))

\* C1 witness: create returned the creation error after a cleanup that
\* failed, leaving a key file behind.
C1_Witness ==
    \E p \in Procs : \E i \in FailedCreate(p) :
        /\ pc[p] = "done"
        /\ ret[p] = "failed to create instance"
        /\ CallIs(p, Len(calls[p]), "DeleteSSHKey", loc[p].instanceName)
        /\ ~calls[p][Len(calls[p])].ok
        /\ KeyFilesOf(files, loc[p].instanceName) # {}

\* A connect given an identifier that has chosen its server.
ConnectChose(p) ==
    /\ loc[p].cmd = "connect"
    /\ Len(loc[p].args) = 1
    /\ loc[p].args[1] # EmptyStr
    /\ loc[p].selectedServer # NoServer

\* The servers of the provider.
ServersOf(svrs) == {svrs[i] : i \in DOMAIN svrs}

\* The unmanaged servers of the provider with the given ID.
UnmanagedWithID(svrs, id) ==
    {s \in ServersOf(svrs) : s.ID = id /\ ~HasTinsTag(s) /\ ~HasTinsPrefix(s)}

\* connect given an identifier chooses only a managed server of the provider.
ConnectChoosesManaged ==
    \A p \in Procs : ConnectChose(p) =>
        /\ loc[p].selectedServer \in ServersOf(servers)
        /\ HasTinsTag(loc[p].selectedServer) \/ HasTinsPrefix(loc[p].selectedServer)
        /\ UnmanagedWithID(servers, loc[p].selectedServer.ID) = {}

\* A successful DeleteInstance of single-target terminate removed the server
\* with the resolved ID.
TerminateDeletesResolved ==
    \A p \in Procs : SingleDeleted(p) =>
        /\ CalledOK(p, "DeleteInstance")
        /\ \A i \in At(p, "DeleteInstance") : calls[p][i].arg = loc[p].serverID
        /\ IndexOfID(servers, loc[p].serverID) = 0

\* C7 as claimed: connect given an identifier never selects an unmanaged
\* instance, not even by its raw provider ID, while terminate given the raw
\* ID of an unmanaged instance resolves to that instance and deletes it.
C7_TerminateAcceptsAnyRawID ==
    /\ ConnectChoosesManaged
    /\ TerminateDeletesResolved
    /\ \A p \in Procs : JustResolved(p) =>
          \A s \in UnmanagedWithID(servers, loc[p].args[1]) :
              loc[p].serverID = s.ID /\ loc[p].fullInstanceName = s.Name

\* C7 amended: connect given an identifier never selects an unmanaged
\* instance, not even by its raw provider ID; terminate given the raw ID X of
\* an unmanaged instance resolves to that instance and deletes it, without a
\* check of its managed status, provided X does not start with tins- and no
\* managed instance is named tins-X (terminate resolves to that one first).
C7_ConnectRejectsUnmanaged ==
    /\ ConnectChoosesManaged
    /\ TerminateDeletesResolved
    /\ \A p \in Procs : JustResolved(p) =>
          \A s \in UnmanagedWithID(servers, loc[p].args[1]) :
              /\ ~HasPrefix(s.ID, InstanceNamePrefix)
              /\ \A t \in ManagedOf(servers) : t.Name # FullName(s.ID)
              => loc[p].serverID = s.ID /\ loc[p].fullInstanceName = s.Name

\* C7 witness: terminate resolved the raw ID of an unmanaged instance to
\* that instance.
C7_Witness ==
    \E p \in Procs :
        /\ JustResolved(p)
        /\ \E s \in UnmanagedWithID(servers, loc[p].args[1]) :
              loc[p].serverID = s.ID /\ loc[p].fullInstanceName = s.Name

\* Whether connect's list search takes server s for the identifier: its
\* name or its ID is the identifier, or its name is tins- plus the identifier.
ListSearchTakes(s, id) == id \in {s.Name, s.ID} \/ s.Name = FullName(id)

TaggedTrue(s) ==
    /\ ~s.Metadata.isNil
    /\ "tins" \in DOMAIN s.Metadata.map
    /\ s.Metadata.map["tins"] = "true"

\* The name of server s starts with tins-.
NamedTins(s) ==
    /\ Len(s.Name) >= 5
    /\ \A k \in 1..5 : s.Name[k] = <<"t", "i", "n", "s", "-">>[k]

\* The positions of the provider's servers that are tagged or prefixed.
Recognized(svrs) == {i \in DOMAIN svrs : TaggedTrue(svrs[i]) \/ NamedTins(svrs[i])}

\* C9: the list ListInstances returns holds exactly the provider's servers
\* that carry metadata tins = "true" or a name starting with tins-, each
\* once and in the provider's order, and no other server.
C9_ListFilter ==
    \A p \in Procs : loc[p].cmd = "list" /\ ret[p] = "nil" =>
        LET q == Recognized(servers)
        IN  /\ Len(loc[p].list) = Cardinality(q)
            /\ \A i \in q :
                  loc[p].list[Cardinality({j \in q : j <= i})] = servers[i]

\* C9 witness: a listing that kept a server for its prefix alone, though its
\* metadata says tins = "false", and left another server out.
C9_Witness ==
    \E p \in Procs :
        /\ loc[p].cmd = "list"
        /\ ret[p] = "nil"
        /\ Len(servers) = 2
        /\ Len(loc[p].list) = 1
        /\ loc[p].list[1] = servers[2]
        /\ servers[2].Metadata = MetaFalse

\* C10: DeleteSSHKey fails only when a key file it found could not be
\* removed, so it succeeds on a name without key files and when called again
\* after a success; a successful DeleteSSHKey, right after GenerateSSHKey or
\* not, leaves neither key file of the name.
C10_DeleteIdempotent ==
    \A p \in Procs : pc[p] = "keys" =>
        \A i \in At(p, "DeleteSSHKey") :
            LET c == calls[p][i]
            IN  /\ c.pre = {} => c.ok
                /\ i > 1 /\ calls[p][i - 1].op = "DeleteSSHKey"
                         /\ calls[p][i - 1].arg = c.arg
                         /\ calls[p][i - 1].ok
                   => c.pre = {} /\ c.ok
                /\ i > 1 /\ calls[p][i - 1].op = "GenerateSSHKey"
                         /\ calls[p][i - 1].arg = c.arg
                         /\ calls[p][i - 1].ok
                   => c.pre = {"priv", "pub"}
                /\ i = Len(calls[p]) =>
                      IF c.ok
                      THEN /\ ~Exists(files, GetSSHKeyPath(c.arg))
                           /\ ~Exists(files, GetSSHKeyPath(c.arg) \o <<".pub">>)
                      ELSE KeyFilesOf(files, c.arg) # {}

\* C10 witness: GenerateSSHKey succeeded, the DeleteSSHKey right after it
\* succeeded and left no file, and a second DeleteSSHKey succeeded too.
C10_Witness ==
    \E p \in Procs :
        /\ pc[p] = "keys"
        /\ Len(calls[p]) = 3
        /\ calls[p][1].op = "GenerateSSHKey" /\ calls[p][1].ok
        /\ calls[p][2].op = "DeleteSSHKey" /\ calls[p][2].ok
        /\ calls[p][3].op = "DeleteSSHKey" /\ calls[p][3].ok
        /\ calls[p][3].pre = {}
        /\ KeyFilesOf(files, calls[p][3].arg) = {}

\* A step in which create's readiness poll polls once.
PollStep(p) == pc[p] = "c_wait" /\ calls'[p] # calls[p]

\* What the poll made in this step saw and did: one GetInstance of the new
\* server a tick after the previous one; it ends the wait on a failed fetch,
\* on ACTIVE, on ERROR and once the deadline has passed, and only then.
PollOutcome(p) ==
    LET c == calls'[p][Len(calls'[p])]
        k == IndexOfID(servers, loc[p].serverID)
        end == CASE ~c.ok -> "failed to get server"
                 [] servers[k].Status = "ACTIVE" -> "nil"
                 [] servers[k].Status = "ERROR" -> "server entered ERROR state"
                 [] loc'[p].now >= WaitTimeout ->
                        "timeout waiting for server to become active"
                 [] OTHER -> ""
    IN  /\ Len(calls'[p]) = Len(calls[p]) + 1
        /\ c.op = "GetInstance" /\ c.arg = loc[p].serverID
        /\ loc'[p].now = loc[p].now + PollInterval
        /\ loc'[p].waitErr = end
        /\ pc'[p] = IF end = "" THEN "c_wait" ELSE "c_refetch"

\* C11: the readiness poll always terminates.  Each poll is one tick (5 s)
\* after the previous one and returns on the first poll that sees ACTIVE,
\* sees ERROR, fails to fetch the instance or is taken once the deadline has
\* passed; while it waits the deadline has not passed; and with the ticker
\* firing, every wait ends, also for an instance that stays in BUILD.
C11_PollTerminates ==
    /\ [][\A p \in Procs : PollStep(p) => PollOutcome(p)]_vars
    /\ [](\A p \in Procs : pc[p] = "c_wait" =>
            /\ loc[p].now < WaitTimeout
            /\ loc[p].waitErr = "")
    /\ \A p \in Procs : (pc[p] = "c_wait") ~> (pc[p] = "c_refetch")

\* C11 witness: the wait ended by timeout on an instance still in BUILD,
\* at the poll of the tick at which the timeout elapsed.
C11_Witness ==
    \E p \in Procs :
        /\ pc[p] = "c_refetch"
        /\ loc[p].waitErr = "timeout waiting for server to become active"
        /\ loc[p].now = WaitTimeout
        /\ servers[IndexOfID(servers, loc[p].serverID)].Status = "BUILD"

\* A create whose readiness poll ended by timeout.
WaitTimedOut(p) ==
    /\ loc[p].cmd = "create"
    /\ loc[p].waitErr = "timeout waiting for server to become active"

\* C12: when create's readiness poll ends by timeout the command goes on to
\* the final re-fetch of the instance, calls neither DeleteSSHKey nor
\* DeleteInstance nor DeleteKeypair, leaves both local key files and the
\* instance in place, and returns nil.
C12_TimeoutIsWarning ==
    \A p \in Procs : WaitTimedOut(p) =>
        /\ pc[p] \in {"c_refetch", "done"}
        /\ At(p, "DeleteSSHKey") = {}
        /\ At(p, "DeleteInstance") = {}
        /\ At(p, "DeleteKeypair") = {}
        /\ KeyFilesOf(files, loc[p].instanceName) = {"priv", "pub"}
        /\ IndexOfID(servers, loc[p].serverID) # 0
        /\ Cardinality(At(p, "GetInstance")) =
              (WaitTimeout \div PollInterval) + (IF pc[p] = "done" THEN 1 ELSE 0)
        /\ pc[p] = "done" =>
              /\ ret[p] = "nil"
              /\ CallIs(p, Len(calls[p]), "GetInstance", loc[p].serverID)

\* C12 witness: a create that timed out waiting, re-fetched the instance and
\* returned nil.
C12_Witness ==
    \E p \in Procs :
        /\ WaitTimedOut(p)
        /\ pc[p] = "done"
        /\ ret[p] = "nil"
        /\ calls[p][Len(calls[p])].ok

\* The positions of create's failed GenerateSSHKey call, if any.
FailedKeygen(p) ==
    IF loc[p].cmd = "create"
    THEN {g \in At(p, "GenerateSSHKey") : ~calls[p][g].ok}
    ELSE {}

\* The calls of the log that go to the provider: all but the key manager's.
RemoteCalls(p) ==
    {i \in DOMAIN calls[p] :
        calls[p][i].op \notin {"GenerateSSHKey", "DeleteSSHKey", "ssh"}}

\* C13 as claimed: when GenerateSSHKey fails, create returns an error and
\* has made no call to the provider, authentication included.
C13_KeysBeforeAnyRemoteCall ==
    \A p \in Procs : FailedKeygen(p) # {} =>
        /\ pc[p] = "done"
        /\ ret[p] = "failed to generate SSH key"
        /\ RemoteCalls(p) = {}

\* C13 amended: create authenticates to the provider (NewOpenStackClient)
\* before it generates the key pair; when GenerateSSHKey fails, create
\* returns that error at once, the successful authentication being the only
\* call to the provider it has made.
C13_OnlyAuthenticationBeforeKeys ==
    \A p \in Procs : \A g \in FailedKeygen(p) :
        /\ pc[p] = "done"
        /\ ret[p] = "failed to generate SSH key"
        /\ g = 2 /\ Len(calls[p]) = 2
        /\ RemoteCalls(p) = {1}
        /\ calls[p][1].op = "Authenticate" /\ calls[p][1].ok

\* C13 witness: create returned the key-generation error after it had
\* authenticated.
C13_Witness ==
    \E p \in Procs :
        /\ FailedKeygen(p) = {2}
        /\ ret[p] = "failed to generate SSH key"
        /\ calls[p][1].op = "Authenticate"

\* A create whose keypair registration succeeded and whose server-create
\* call then failed.
ServerCreateFailed(p) ==
    /\ loc[p].cmd = "create"
    /\ \E k \in At(p, "CreateKeypair") : calls[p][k].ok
    /\ \E i \in At(p, "CreateServer") : ~calls[p][i].ok

\* C14: create never calls DeleteKeypair; when its keypair registration
\* succeeded and the server-create call failed it returns the creation
\* error, and the keypair tins-<name> with the generated public key is still
\* registered.
C14_KeypairNotRetracted ==
    \A p \in Procs : loc[p].cmd = "create" =>
        /\ At(p, "DeleteKeypair") = {}
        /\ ServerCreateFailed(p) =>
              /\ pc[p] \in {"c_rollback", "done"}
              /\ pc[p] = "done" => ret[p] = "failed to create instance"
              /\ [name |-> FullName(loc[p].instanceName),
                  publicKey |-> loc[p].publicKey] \in keypairs

\* C14 witness: create returned the creation error after the server-create
\* call failed, and the keypair it registered is still there.
C14_Witness ==
    \E p \in Procs :
        /\ ServerCreateFailed(p)
        /\ pc[p] = "done"
        /\ ret[p] = "failed to create instance"
        /\ \E kp \in keypairs : kp.name = loc[p].fullInstanceName

\* A create that returned nil.
CreateSucceeded(p) ==
    loc[p].cmd = "create" /\ pc[p] = "done" /\ ret[p] = "nil"

\* C15: after a successful create of short name n both key files exist at
\* <sshDir>/tins-n and <sshDir>/tins-n.pub, the provider has the created
\* instance, named tins-n and carrying metadata tins = "true", and the
\* provider has a keypair named tins-n whose public key is the content of
\* the local .pub file.
C15_CreateLeavesAllThree ==
    \A p \in Procs : CreateSucceeded(p) =>
        LET n == loc[p].instanceName
            priv == SshDir \o InstanceNamePrefix \o n
            pub == priv \o <<".pub">>
            k == IndexOfID(servers, loc[p].serverID)
        IN  /\ priv \in DOMAIN files
            /\ pub \in DOMAIN files
            /\ k # 0
            /\ servers[k].Name = InstanceNamePrefix \o n
            /\ ~servers[k].Metadata.isNil
            /\ servers[k].Metadata.map = ("tins" :> "true")
            /\ \E kp \in keypairs :
                  /\ kp.name = InstanceNamePrefix \o n
                  /\ kp.publicKey = files[pub]
            /\ \A kp \in keypairs :
                  kp.name = InstanceNamePrefix \o n => kp.publicKey = files[pub]

\* C15 witness: a create of the explicit name a on which every call
\* succeeded has returned nil with the instance ACTIVE.
C15_Witness ==
    \E p \in Procs :
        /\ CreateSucceeded(p)
        /\ loc[p].args = <<<<"a">>>>
        /\ \A i \in DOMAIN calls[p] : calls[p][i].ok
        /\ loc[p].waitErr = "nil"
        /\ loc[p].selectedServer.Status = "ACTIVE"

\* The address entries of a server, of all its networks.
EntriesOf(server) ==
    UNION {{server.Addresses[n][i] : i \in DOMAIN server.Addresses[n]} :
              n \in DOMAIN server.Addresses}

\* The addresses a server holds, and those typed fixed or floating.
AddressesOf(server) == {e["addr"] : e \in {x \in EntriesOf(server) : "addr" \in DOMAIN x}}
TypedAddressesOf(server) ==
    {e["addr"] : e \in {x \in EntriesOf(server) :
                          /\ "addr" \in DOMAIN x
                          /\ "OS-EXT-IPS:type" \in DOMAIN x
                          /\ x["OS-EXT-IPS:type"] \in {"fixed", "floating"}}}

\* C16 as claimed: extractIPAddress returns an address typed fixed or
\* floating whenever the address map holds one; otherwise it returns an
\* address of any type that the map holds; it fails only when the map holds
\* no address at all.
C16_PrefersTypedAddress ==
    \A p \in Procs : loc[p].cmd = "extract" /\ pc[p] = "done" =>
        LET server == loc[p].selectedServer
        IN  /\ TypedAddressesOf(server) # {} =>
                  ret[p] = "nil" /\ loc[p].ipAddress \in TypedAddressesOf(server)
            /\ AddressesOf(server) # {} =>
                  ret[p] = "nil" /\ loc[p].ipAddress \in AddressesOf(server)
            /\ ret[p] # "nil" => AddressesOf(server) = {}

\* The private key path connect computes for the server it selected.
SelectedKeyPath(p) ==
    SshDir \o InstanceNamePrefix
           \o TrimPrefix(loc[p].selectedServer.Name, InstanceNamePrefix)

\* C17: connect launches ssh only if a private key file exists at
\* GetSSHKeyPath of the selected instance's name without the tins- prefix,
\* and passes that path to ssh; when the file is absent it returns an error
\* instead; the key is looked for only after an address was extracted, so a
\* server without an address fails on the address whether or not the key
\* exists.  (os.Stat is taken to report an absent file as not existing.)
C17_KeyRequiredForSSH ==
    \A p \in Procs : loc[p].cmd = "connect" =>
        /\ \A i \in At(p, "ssh") :
              /\ SelectedKeyPath(p) \in DOMAIN files
              /\ calls[p][i].arg[2] = SelectedKeyPath(p)
              /\ loc[p].ipAddress \in AddressesOf(loc[p].selectedServer)
        /\ ret[p] = "SSH key not found" =>
              /\ SelectedKeyPath(p) \notin DOMAIN files
              /\ At(p, "ssh") = {}
              /\ loc[p].ipAddress \in AddressesOf(loc[p].selectedServer)
        /\ pc[p] = "done" /\ loc[p].selectedServer # NoServer =>
              IF AddressesOf(loc[p].selectedServer) = {}
              THEN ret[p] = "failed to get IP address"
              ELSE IF SelectedKeyPath(p) \notin DOMAIN files
              THEN ret[p] = "SSH key not found"
              ELSE At(p, "ssh") # {}

\* C17 witness: connect selected a server with an address whose key file is
\* absent, and returned the key error without launching ssh.
C17_Witness ==
    \E p \in Procs :
        /\ loc[p].cmd = "connect"
        /\ ret[p] = "SSH key not found"
        /\ loc[p].ipAddress = "10.0.0.1"
        /\ At(p, "ssh") = {}

\* C18 as claimed: connect accepts additional arguments after the
\* identifier and appends them, unmodified and in order, to the ssh
\* arguments after the destination root@<ip>.
C18_ExtraArgsAppended ==
    \A p \in Procs : loc[p].cmd = "connect" /\ Len(loc[p].args) > 1 =>
        /\ ret[p] # "accepts between 0 and 1 arg(s)"
        /\ \A i \in At(p, "ssh") :
              LET a == calls[p][i].arg
                  n == Len(loc[p].args) - 1
              IN  /\ Len(a) = 7 + n
                  /\ a[7] = <<"root@", loc[p].ipAddress>>
                  /\ SubSeq(a, 8, Len(a)) = SubSeq(loc[p].args, 2, Len(loc[p].args))

\* The pairs <<full name, short name>> an invocation has in use: create's
\* and single-target terminate's variables once set, the selected server's
\* name and the short name connect derived from it, and for terminate --all
\* the names of a DeleteKeypair call and of the DeleteSSHKey call after it.
IdentitiesInUse(p) ==
    (IF \/ loc[p].cmd = "create" /\ loc[p].fullInstanceName # EmptyStr
        \/ SingleTerminate(p) /\ loc[p].serverID # EmptyStr
     THEN {<<loc[p].fullInstanceName, loc[p].instanceName>>} ELSE {})
    \cup
    (IF loc[p].cmd = "connect" /\ loc[p].selectedServer # NoServer
                               /\ pc[p] = "done"
     THEN {<<loc[p].selectedServer.Name, loc[p].instanceName>>} ELSE {})
    \cup
    (IF BatchTerminate(p)
     THEN {<<calls[p][i].arg, calls[p][i + 1].arg>> :
              i \in {j \in At(p, "DeleteKeypair") :
                        j + 1 \in At(p, "DeleteSSHKey")}}
     ELSE {})

\* C19 as claimed: in every workflow the full name in use is tins- followed
\* by the short name in use.
C19_FullNameIsPrefixPlusShort ==
    \A p \in Procs : \A id \in IdentitiesInUse(p) :
        id[1] = InstanceNamePrefix \o id[2]

\* C19 amended: the full name is tins- followed by the short name in create
\* always, and in terminate and connect whenever the instance's name starts
\* with tins-; for an instance whose name does not start with tins- (one
\* managed by its metadata tag alone, or one terminate fetched by raw ID) the
\* short name in use is the full name itself.
C19_FullNameUnlessUnprefixed ==
    \A p \in Procs : \A id \in IdentitiesInUse(p) :
        IF loc[p].cmd = "create" \/ HasPrefix(id[1], InstanceNamePrefix)
        THEN id[1] = InstanceNamePrefix \o id[2]
        ELSE id[2] = id[1]

\* C19 witness: terminate --all cleaned up after a tagged instance named b:
\* keypair b, local keys of short name b.
C19_Witness ==
    \E p \in Procs :
        /\ BatchTerminate(p)
        /\ <<<<"b">>, <<"b">>>> \in IdentitiesInUse(p)

\* LoadConfig has returned a configuration.
ConfigReturned(p) ==
    loc[p].cmd = "config" /\ pc[p] = "done" /\ ret[p] = "nil"

\* The value a field has before the defaults: the environment variable when
\* it is set and not empty, else the file's key when a file was parsed.
Supplied(p, field) ==
    LET cf == loc[p].configFile
        env == loc[p].environ
    IN  IF EnvVar(field) \in DOMAIN env /\ env[EnvVar(field)] # ""
        THEN env[EnvVar(field)]
        ELSE IF cf.found /\ cf.parses /\ YamlKey(field) \in DOMAIN cf.yaml
        THEN cf.yaml[YamlKey(field)]
        ELSE ""

\* C20: a configuration LoadConfig returns has the eight required fields
\* non-empty, has DomainName, FlavorName and NetworkAttachmentMode non-empty
\* ("default", "m1.small", "existing_network" when unset), and has the
\* Password of OS_PASSWORD, never a value of the config file; when a required
\* field is empty LoadConfig returns no configuration.
C20_ReturnedConfigIsComplete ==
    \A p \in Procs :
        /\ ConfigReturned(p) =>
            /\ \A f \in {"AuthURL", "Username", "ProjectID", "ProjectName",
                         "RegionName", "AvailabilityZone", "ImageName",
                         "NetworkName"} : loc[p].config[f] # ""
            /\ loc[p].config["DomainName"] =
                  (IF Supplied(p, "DomainName") = "" THEN "default"
                   ELSE Supplied(p, "DomainName"))
            /\ loc[p].config["FlavorName"] =
                  (IF Supplied(p, "FlavorName") = "" THEN "m1.small"
                   ELSE Supplied(p, "FlavorName"))
            /\ loc[p].config["NetworkAttachmentMode"] =
                  (IF Supplied(p, "NetworkAttachmentMode") = ""
                   THEN "existing_network"
                   ELSE Supplied(p, "NetworkAttachmentMode"))
            /\ \A f \in {"DomainName", "FlavorName", "NetworkAttachmentMode"} :
                  loc[p].config[f] # ""
            /\ "OS_PASSWORD" \in DOMAIN loc[p].environ
            /\ loc[p].config["Password"] = loc[p].environ["OS_PASSWORD"]
            /\ loc[p].config["Password"] # "file-password"
        /\ ( /\ loc[p].cmd = "config" /\ pc[p] = "done"
             /\ \E f \in {"AuthURL", "Username", "ProjectID", "ProjectName",
                          "RegionName", "AvailabilityZone", "ImageName",
                          "NetworkName"} : Supplied(p, f) = "" )
           => (ret[p] # "nil" /\ loc[p].config = <<>>)

\* C20 witness: a configuration was returned for a file that has a password
\* key and lacks domain_name, the password being the environment's.
C20_Witness ==
    \E p \in Procs :
        /\ ConfigReturned(p)
        /\ loc[p].configFile.found /\ loc[p].configFile.parses
        /\ "password" \in DOMAIN loc[p].configFile.yaml
        /\ "domain_name" \notin DOMAIN loc[p].configFile.yaml
        /\ loc[p].config["DomainName"] = "default"
        /\ loc[p].config["Password"] = "env-password"

\* The file the README says is loaded: .config/tins.yaml when it exists,
\* else ~/.config/tins/tins.yaml when it exists, else "".
DocumentedConfigPath(disk) ==
    IF ".config/tins.yaml" \in DOMAIN disk.files THEN ".config/tins.yaml"
    ELSE IF "~/.config/tins/tins.yaml" \in DOMAIN disk.files
    THEN "~/.config/tins/tins.yaml"
    ELSE ""

\* C21 as claimed: LoadConfig reads .config/tins.yaml of the current
\* directory when it exists, otherwise ~/.config/tins/tins.yaml; when both
\* directory lookups succeed, the file there parses and no environment
\* variable overrides it, the returned values are that file's.
C21_DocumentedPathsLoaded ==
    \A p \in Procs :
        LET disk == loc[p].disk
            path == DocumentedConfigPath(disk)
        IN  ( /\ loc[p].cmd = "find" /\ pc[p] = "done"
              /\ disk.cwdOK /\ disk.homeOK
              /\ path # ""
              /\ disk.files[path].parses
              /\ DOMAIN loc[p].environ = {"OS_PASSWORD"} )
            => /\ ret[p] = "nil"
               /\ \A f \in ConfigFields : loc[p].config[f] = path

\* C22: for each non-secret field, the configuration LoadConfig returns has
\* the value of the field's OS_* variable when that variable is non-empty,
\* otherwise the config file's value, otherwise (for the three defaulted
\* fields) the default.
C22_EnvironmentOverridesFile ==
    \A p \in Procs :
        ConfigReturned(p) =>
            \A f \in ConfigFields :
                LET cf == loc[p].configFile
                    env == loc[p].environ
                    envValue == IF EnvVar(f) \in DOMAIN env
                                THEN env[EnvVar(f)] ELSE ""
                    fileValue == IF cf.found /\ YamlKey(f) \in DOMAIN cf.yaml
                                 THEN cf.yaml[YamlKey(f)] ELSE ""
                IN  loc[p].config[f] =
                        (IF envValue # "" THEN envValue
                         ELSE IF fileValue # "" THEN fileValue
                         ELSE DefaultOf(f))

\* C22 witness: a configuration was returned with AuthURL from the
\* environment although the file has auth_url, and Username from the file.
C22_Witness ==
    \E p \in Procs :
        /\ ConfigReturned(p)
        /\ loc[p].configFile.found
        /\ "auth_url" \in DOMAIN loc[p].configFile.yaml
        /\ loc[p].config["AuthURL"] = "env-value"
        /\ loc[p].config["Username"] = "file-value"

\* The letters a to z.
LowerCase ==
    {"a", "b", "c", "d", "e", "f", "g", "h", "i", "j", "k", "l", "m",
     "n", "o", "p", "q", "r", "s", "t", "u", "v", "w", "x", "y", "z"}

\* The positions of the hyphens of a name.
HyphensOf(name) == {i \in DOMAIN name : name[i] = "-"}

\* A name that matches ^[a-z]+-[a-z]+$.
MatchesTwoWords(name) ==
    \E i \in 2 .. Len(name) - 1 :
        /\ name[i] = "-"
        /\ \A j \in DOMAIN name \ {i} : name[j] \in LowerCase

\* The name of a new instance was taken from the generator.
NameGenerated(p) ==
    /\ loc[p].cmd = "name" /\ pc[p] = "done" /\ ret[p] = "nil"
    /\ ~(Len(loc[p].args) > 0 /\ loc[p].args[1] # EmptyStr)

\* C23: a generated name matches ^[a-z]+-[a-z]+$ and splits at its single
\* hyphen into a word of the adjective list and a word of the noun list;
\* create uses a generated name only when it has no non-empty name
\* argument, and the argument otherwise.
C23_GeneratedNameIsTwoListedWords ==
    \A p \in Procs :
        /\ NameGenerated(p) =>
            LET name == loc[p].instanceName
            IN  /\ MatchesTwoWords(name)
                /\ Cardinality(HyphensOf(name)) = 1
                /\ \A i \in HyphensOf(name) :
                       /\ \E a \in DOMAIN adjectives :
                              adjectives[a] = SubSeq(name, 1, i - 1)
                       /\ \E n \in DOMAIN nouns :
                              nouns[n] = SubSeq(name, i + 1, Len(name))
        /\ ( /\ loc[p].cmd = "name" /\ pc[p] = "done"
             /\ Len(loc[p].args) > 0 /\ loc[p].args[1] # EmptyStr )
           => (ret[p] = "nil" /\ loc[p].instanceName = loc[p].args[1])

\* C23 witness: the generated name mystical-lamport, of words inside the
\* two lists, given an empty name argument.
C23_Witness ==
    \E p \in Procs :
        /\ NameGenerated(p)
        /\ loc[p].args = <<EmptyStr>>
        /\ loc[p].instanceName =
              <<"m", "y", "s", "t", "i", "c", "a", "l", "-",
                "l", "a", "m", "p", "o", "r", "t">>

\* The invocation created its instance.
InstanceCreated(p) ==
    loc[p].cmd = "create" /\ pc[p] = "c_wait"

\* The local private key file of the invocation's short name holds the
\* private key of the public key the invocation registered.
HasMatchingPrivateKey(p) ==
    /\ GetSSHKeyPath(loc[p].instanceName) \in DOMAIN files
    /\ files[GetSSHKeyPath(loc[p].instanceName)].kind = "RSA PRIVATE KEY"
    /\ files[GetSSHKeyPath(loc[p].instanceName)].key = loc[p].publicKey.key

\* Another invocation generated or deleted the key files of the same short
\* name.
OtherTouchedKeys(p) ==
    \E q \in Procs \ {p} :
        \E i \in At(q, "GenerateSSHKey") \cup At(q, "DeleteSSHKey") :
            calls[q][i].arg = loc[p].instanceName

\* C24: nothing keeps one invocation from the key files of another: a
\* created instance is without its matching local private key only when
\* another invocation generated or deleted the key files of the same short
\* name, which two concurrent creates can bring about.
C24_KeyLostOnlyToOtherInvocation ==
    \A p \in Procs :
        (InstanceCreated(p) /\ ~HasMatchingPrivateKey(p)) => OtherTouchedKeys(p)

\* C24 witness: the first create made its instance; the second create of
\* the same short name failed at its remote step, rolled back and removed
\* the key files, so the instance has no local private key.
C24_Witness ==
    /\ InstanceCreated("p1")
    /\ pc["p2"] = "done" /\ ret["p2"] = "failed to create instance"
    /\ loc["p2"].instanceName = loc["p1"].instanceName
    /\ At("p2", "DeleteSSHKey") # {}
    /\ GetSSHKeyPath(loc["p1"].instanceName) \notin DOMAIN files
    /\ \E i \in DOMAIN servers : servers[i].ID = loc["p1"].serverID

\* C25 as claimed: a create that ends in failure leaves the key files that
\* existed before it started as they were: the files of its short name that
\* were there before its GenerateSSHKey still hold the earlier key.
C25_FailedCreateKeepsOldKeys ==
    \A p \in Procs :
        (loc[p].cmd = "create" /\ pc[p] = "done" /\ ret[p] # "nil") =>
            \A i \in At(p, "GenerateSSHKey") :
                LET path == GetSSHKeyPath(loc[p].instanceName)
                IN  /\ "priv" \in calls[p][i].pre =>
                          /\ path \in DOMAIN files
                          /\ files[path] = PrivateKeyPEM(0)
                    /\ "pub" \in calls[p][i].pre =>
                          /\ PubPath(path) \in DOMAIN files
                          /\ files[PubPath(path)] = PublicKeyString(0)

\* C26 as claimed: terminate, single-target or --all, deletes no remote
\* keypair whose name lacks the tins- prefix, and removes no local key files
\* whose instance (the one named tins-<short name>) still exists.
C26_CleanupTouchesOnlyOwn ==
    \A p \in Procs :
        loc[p].cmd = "terminate" =>
            /\ \A i \in At(p, "DeleteKeypair") :
                   calls[p][i].ok =>
                       HasPrefix(calls[p][i].arg, InstanceNamePrefix)
            /\ \A i \in At(p, "DeleteSSHKey") :
                   (calls[p][i].ok /\ calls[p][i].pre # {}) =>
                       \A j \in DOMAIN servers :
                           servers[j].Name # FullName(calls[p][i].arg)

\* C27 as claimed: when GenerateSSHKey returns an error, neither key file of
\* the name has been created or modified by the call: a create aborted at
\* the key-generation step has the files that were there before, holding
\* the earlier key, and no others.
C27_FailedGenerateWritesNothing ==
    \A p \in Procs :
        ( /\ loc[p].cmd = "create" /\ pc[p] = "done"
          /\ ret[p] = "failed to generate SSH key" ) =>
            \A i \in At(p, "GenerateSSHKey") :
                LET path == GetSSHKeyPath(loc[p].instanceName)
                IN  /\ KeyFilesOf(files, loc[p].instanceName) = calls[p][i].pre
                    /\ path \in DOMAIN files => files[path] = PrivateKeyPEM(0)
                    /\ PubPath(path) \in DOMAIN files =>
                          files[PubPath(path)] = PublicKeyString(0)

\* The invocation's step is one call of DeleteSSHKey on the short name, a
\* call whose removals are denied as the two flags say.
DeleteStepWith(p, instanceName, deniedPriv, deniedPub) ==
    LET r == DeleteSSHKey(files, instanceName, deniedPriv, deniedPub)
    IN  /\ Len(calls'[p]) = Len(calls[p]) + 1
        /\ calls'[p][Len(calls'[p])].op = "DeleteSSHKey"
        /\ calls'[p][Len(calls'[p])].arg = instanceName
        /\ calls'[p][Len(calls'[p])].ok = (r.err = "nil")
        /\ files' = r.files

\* C28 as claimed: every call of DeleteSSHKey calls os.Remove on both key
\* files: when the removal of the private key fails with an error other
\* than not-exist, the call returns an error and has still called os.Remove
\* on the public key file.
C28_BothRemovalsAttempted ==
    [][\A p \in Procs : \A instanceName \in KeyNames :
         \A deniedPriv \in BOOLEAN, deniedPub \in BOOLEAN :
            DeleteStepWith(p, instanceName, deniedPriv, deniedPub) =>
                LET r == DeleteSSHKey(files, instanceName, deniedPriv, deniedPub)
                IN  /\ PubPath(GetSSHKeyPath(instanceName)) \in r.removes
                    /\ (deniedPriv /\ Exists(files, GetSSHKeyPath(instanceName)))
                          => r.err # "nil"]_vars

\* C29 as claimed: connect and terminate agree: once connect has resolved an
\* identifier, if on that provider state both resolutions, with no call
\* failing, end at a managed instance, the two instances have the same
\* provider ID.
C29_ConnectAndTerminateAgree ==
    \A p \in Procs :
        ( /\ loc[p].cmd = "connect"
          /\ Len(loc[p].args) > 0 /\ loc[p].args[1] # EmptyStr
          /\ loc[p].selectedServer # NoServer ) =>
            LET c == ResolveConnect(loc[p].args[1], servers, TRUE, TRUE)
                t == ResolveTerminate(loc[p].args[1], servers, TRUE, TRUE)
            IN  ( /\ c.err = "nil" /\ t.err = "nil"
                  /\ \E i \in DOMAIN servers :
                        servers[i].ID = t.serverID /\ IsManaged(servers[i]) )
                => c.selectedServer.ID = t.serverID

\* The invocation of connect went through the menu.
MenuShown(p) == loc[p].cmd = "connect" /\ loc[p].list # <<>>

\* The selector's state: the index is within the list while the menu is
\* shown; an instance returned from the menu is the one at the index; a
\* cancellation returns no instance; with no instance to show the command
\* fails without a menu.
MenuState(p) ==
    /\ MenuShown(p) => loc[p].idx \in 0 .. Len(loc[p].list) - 1
    /\ (MenuShown(p) /\ loc[p].selectedServer # NoServer) =>
           loc[p].selectedServer = loc[p].list[loc[p].idx + 1]
    /\ (loc[p].cmd = "connect" /\ ret[p] = "cancelled by user") =>
           (MenuShown(p) /\ loc[p].selectedServer = NoServer)
    /\ (loc[p].cmd = "connect" /\ ret[p] = "no instances available") =>
           (~MenuShown(p) /\ loc[p].selectedServer = NoServer)

\* A key event in the menu moves the index by at most one and not past
\* either end of the list.
MenuMove(p) ==
    (pc[p] = "n_menu" /\ pc'[p] = "n_menu") =>
        /\ loc'[p].idx \in {loc[p].idx - 1, loc[p].idx, loc[p].idx + 1}
        /\ loc'[p].idx \in 0 .. Len(loc[p].list) - 1
        /\ loc'[p].list = loc[p].list

\* C30: in showInstanceMenu the selected index stays within
\* 0..len(list)-1 under any sequence of up and down events, Enter returns
\* the instance at the index, Esc and Ctrl-C return a cancellation error and
\* no instance, and an empty list is an error before any menu.
C30_MenuIndexInRange ==
    /\ [](\A p \in Procs : MenuState(p))
    /\ [][\A p \in Procs : MenuMove(p)]_vars

\* C30 witness: Enter on the second entry, after a move down, returned the
\* second instance of the list.
C30_Witness ==
    \E p \in Procs :
        /\ MenuShown(p) /\ pc[p] = "n_ssh"
        /\ loc[p].idx = 1
        /\ loc[p].selectedServer = loc[p].list[2]
        /\ loc[p].list[2] # loc[p].list[1]

====
